---- MODULE Spec2Model ----
(***************************************************************************)
(* A model of yaslha: the single-pass SLHA parser (parser.py) filling the  *)
(* Block / Decay containers of core.py, the text dumper (dumper.py,        *)
(* utility.py) and the SLHA accessor object (slha.py, _collections.py).    *)
(*                                                                         *)
(* Text is a sequence of line objects, i.e. what the line grammar makes of *)
(* each physical line.  Every line object is a record of one shape: k is   *)
(* the line class, the other fields hold the class's attributes and a      *)
(* default otherwise.  Keys are tuples of integers: <<i>> for a one-index  *)
(* line, <<d1, d2>> for a decay channel.  Numbers are fixed-point          *)
(* integers.  The text the dumper writes is modelled as read back by the   *)
(* line grammar: a written line is the line object its string parses to.   *)
(***************************************************************************)
EXTENDS Integers, Sequences, FiniteSets, TLC

VARIABLES
    input,       \* the line objects consumed so far (text.splitlines(), classified)
    slha,        \* the SLHA object under construction: blocks, decays, tail_comment
    processing,  \* parser local: the open entity, by reference
    comment,     \* parser local: the buffered comment lines
    warned,      \* the warning raised by the last line ("" if none)
    done,        \* the parse loop has ended
    before,      \* the SLHA object as it was when the dumper was called
    out,         \* the dumped text
    opts,        \* the dumper's options of the last dump
    doc,         \* an SLHA object (slha.py) edited through its accessors
    omap,        \* a normalized ordered map (_collections.py): its class and its entries
    lastop,      \* the last call made on an object of the API, with its arguments
    dec,         \* a Decay (block.py)
    was,         \* the object as it was before the last call of one of its methods
    calls,       \* the number of method calls made on the Decay since its lines were set
    info,        \* an InfoBlock (block.py): its _data
    mem,         \* the objects behind the names slha and c (test_copy.py), by reference
    reg,         \* the blocks and decays registered in an SLHA object, by reference
    mg,          \* two SLHA objects a and b (slha.py) whose lines are held by reference
    mass,        \* a MASS block of the dumper: its keys as inserted and as last written
    srt,         \* a Decay of the dumper (core.py) and the channel lines last written for it
    warn,        \* the _br_warned attribute of the Decay, the normalizations made on it and the warnings logged
    made         \* the text or list last given to DecayLine and what came of it

parserVars == <<input, slha, processing, comment, warned, done>>
dumpVars   == <<before, out, opts>>
mapVars    == <<omap>>
decayVars  == <<dec, was, calls>>
objVars    == <<omap, lastop, dec, was, calls, info, mem, reg, mg, mass, srt, warn, made>>
vars       == <<input, slha, processing, comment, warned, done, before, out, opts, doc,
                omap, lastop, dec, was, calls, info, mem, reg, mg, mass, srt, warn, made>>

(***************************************************************************)
(* Bounds                                                                  *)
(***************************************************************************)
MaxLines == 4
MaxDumpLines == 3
MaxPairs == 2
MaxCalls == 2
MaxInfoLines == 4
MaxEdits == 4
MaxMergeEdits == 4
MaxPids == 3
MaxChannels == 3

(***************************************************************************)
(* Line objects                                                            *)
(***************************************************************************)
Line(k, name, pid, key, value, cmt, vals, cmts, text) ==
    [k |-> k, name |-> name, pid |-> pid, key |-> key, value |-> value,
     cmt |-> cmt, vals |-> vals, cmts |-> cmts, text |-> text]

BlockLine(name, cmt)           == Line("block", name, 0, <<>>, 0, cmt, <<>>, <<>>, "")
DecayBlockLine(pid, width, cmt) == Line("decayhead", "", pid, <<>>, width, cmt, <<>>, <<>>, "")
CommentLine(text)              == Line("comment", "", 0, <<>>, 0, "", <<>>, <<>>, text)
InfoLine(key, v, cmt)          == Line("info", "", 0, key, 0, "", <<v>>, <<cmt>>, "")
ValueLine(key, value, cmt)     == Line("value", "", 0, key, value, cmt, <<>>, <<>>, "")
DecayLine(key, br, cmt)        == Line("decay", "", 0, key, br, cmt, <<>>, <<>>, "")
NoLine                         == Line("none", "", 0, <<>>, 0, "", <<>>, <<>>, "")

\* InfoLine.append(value, comment): one more value and its comment
InfoLineAppend(l, v, c) == [l EXCEPT !.vals = Append(@, v), !.cmts = Append(@, c)]

\* PartialWidth(width, comment) of a decay channel
PartialWidth(key, width, cmt) == Line("pw", "", 0, key, width, cmt, <<>>, <<>>, "")

(***************************************************************************)
(* Comment positions: CommentPosition.Prefix / Heading / Suffix, or a key  *)
(***************************************************************************)
PosPrefix  == [p |-> "Prefix",  key |-> <<>>]
PosHeading == [p |-> "Heading", key |-> <<>>]
PosSuffix  == [p |-> "Suffix",  key |-> <<>>]
PosKey(key) == [p |-> "key", key |-> key]

(***************************************************************************)
(* OrderedDict over a sequence of records with a key field                 *)
(***************************************************************************)
HasKey(data, key) == \E i \in 1..Len(data) : data[i].key = key

IndexOf(data, key) == CHOOSE i \in 1..Len(data) : data[i].key = key

\* d[key] = item: an existing key keeps its position
DictSet(data, key, item) ==
    IF HasKey(data, key)
    THEN [data EXCEPT ![IndexOf(data, key)] = item]
    ELSE Append(data, item)

\* del d[key]
DictDel(data, key) ==
    LET i == IndexOf(data, key)
    IN  SubSeq(data, 1, i - 1) \o SubSeq(data, i + 1, Len(data))

DictKeys(data) == [i \in 1..Len(data) |-> data[i].key]

\* str.upper over the names of the model
Upper(name) ==
    IF name \in {"mass", "Mass", "MASS"} THEN "MASS"
    ELSE IF name \in {"alpha", "ALPHA"} THEN "ALPHA"
    ELSE IF name \in {"spinfo", "SPINFO"} THEN "SPINFO"
    ELSE name

(***************************************************************************)
(* core.py: Block and Decay, one record shape for both                     *)
(***************************************************************************)
Entity(k, name, pid, width, head_comment) ==
    [k |-> k, name |-> name, pid |-> pid, width |-> width,
     head_comment |-> head_comment, data |-> <<>>, comment_lines |-> <<>>]

\* Block(name, q=None, head_comment): the normal constructor; the name
\* setter stores name.upper()
NewBlock(name, head_comment) == Entity("block", Upper(name), 0, 0, head_comment)

\* Decay(pid, width, head_comment=''): the normal constructor
NewDecay(pid, width) == Entity("decay", "", pid, width, "")

\* _comment_lines is a dict position -> list, kept as a sequence of
\* [key |-> position, lines |-> list] entries
line_comment(e, pos) ==
    IF HasKey(e.comment_lines, pos)
    THEN e.comment_lines[IndexOf(e.comment_lines, pos)].lines
    ELSE <<>>

set_line_comment(e, pos, value) ==
    [e EXCEPT !.comment_lines = DictSet(@, pos, [key |-> pos, lines |-> value])]

clear_line_comment(e, pos) ==
    IF HasKey(e.comment_lines, pos)
    THEN [e EXCEPT !.comment_lines = DictDel(@, pos)]
    ELSE e

line_comment_keys(e) ==
    {e.comment_lines[i].key.key : i \in {j \in 1..Len(e.comment_lines) : e.comment_lines[j].key.p = "key"}}

\* Block.__setitem__(key, obj) with a line object
BlockSetItem(e, key, obj) == [e EXCEPT !.data = DictSet(@, key, obj)]

\* Decay.__setitem__(channel, br) with a DecayLine: width * br is stored
DecaySetItem(e, channel, obj) ==
    [e EXCEPT !.data = DictSet(@, channel, PartialWidth(channel, e.width * obj.value, obj.cmt))]

(***************************************************************************)
(* The SLHA object and the parser's reference to the open entity           *)
(***************************************************************************)
EmptySLHA == [blocks |-> <<>>, decays |-> <<>>, tail_comment |-> <<>>]

NoRef          == [k |-> "none",  name |-> "", pid |-> 0]
BlockRef(name) == [k |-> "block", name |-> name, pid |-> 0]
DecayRef(pid)  == [k |-> "decay", name |-> "", pid |-> pid]

\* the object a reference denotes
Deref(s, ref) ==
    IF ref.k = "block"
    THEN s.blocks[IndexOf(s.blocks, ref.name)].obj
    ELSE s.decays[IndexOf(s.decays, ref.pid)].obj

\* a method call through the reference: the referenced object becomes e
Store(s, ref, e) ==
    IF ref.k = "block"
    THEN [s EXCEPT !.blocks[IndexOf(s.blocks, ref.name)].obj = e]
    ELSE [s EXCEPT !.decays[IndexOf(s.decays, ref.pid)].obj = e]

\* str.endswith('INFO') over the block names of the model
InfoNames == {"SPINFO"}

in_info_block(s, ref) == ref.k = "block" /\ Deref(s, ref).name \in InfoNames

ParserState(s, ref, buf, w) == [slha |-> s, processing |-> ref, comment |-> buf, warned |-> w]

InitialParserState == ParserState(EmptySLHA, NoRef, <<>>, "")

(***************************************************************************)
(* parser.py, SLHAParser.parse: the body of the loop for one line object   *)
(***************************************************************************)
\* a block head that files the buffered comments as the heading comment and
\* keeps the buffer
ParseBlockLine_keep_buffer(st, obj) ==
    LET fresh == NewBlock(obj.name, obj.cmt)
        blk   == IF st.comment # <<>> THEN set_line_comment(fresh, PosHeading, st.comment) ELSE fresh
    IN  ParserState([st.slha EXCEPT !.blocks = DictSet(@, obj.name, [key |-> obj.name, obj |-> blk])],
                    BlockRef(obj.name), st.comment, "")

\* lines 42-48: a block head
ParseBlockLine(st, obj) ==
    LET fresh == NewBlock(obj.name, obj.cmt)
        blk   == IF st.comment # <<>> THEN set_line_comment(fresh, PosPrefix, st.comment) ELSE fresh
    IN  ParserState([st.slha EXCEPT !.blocks = DictSet(@, obj.name, [key |-> obj.name, obj |-> blk])],
                    BlockRef(obj.name),
                    IF st.comment # <<>> THEN <<>> ELSE st.comment,
                    "")

\* lines 50-56: a decay head
ParseDecayBlockLine(st, obj) ==
    LET fresh == NewDecay(obj.pid, obj.value)
        dcy   == IF st.comment # <<>> THEN set_line_comment(fresh, PosPrefix, st.comment) ELSE fresh
    IN  ParserState([st.slha EXCEPT !.decays = DictSet(@, obj.pid, [key |-> obj.pid, obj |-> dcy])],
                    DecayRef(obj.pid),
                    IF st.comment # <<>> THEN <<>> ELSE st.comment,
                    "")

\* lines 58-60: a comment line is buffered
ParseCommentLine(st, obj) ==
    ParserState(st.slha, st.processing, Append(st.comment, obj), "")

\* lines 91-100: the buffered comments after a data line
AttachComment(st, obj) ==
    IF st.comment # <<>>
    THEN LET e        == Deref(st.slha, st.processing)
             keys_len == Len(e.data)
         IN  IF keys_len = 0
             THEN st
             ELSE IF keys_len = 1
             THEN ParserState(Store(st.slha, st.processing, set_line_comment(e, PosHeading, st.comment)),
                              st.processing, <<>>, st.warned)
             ELSE ParserState(Store(st.slha, st.processing, set_line_comment(e, PosKey(obj.key), st.comment)),
                              st.processing, <<>>, st.warned)
    ELSE st

\* lines 64-74: a data line inside an INFO block
FillInfoBlock(st, obj) ==
    LET e == Deref(st.slha, st.processing)
    IN  IF obj.k = "info"
        THEN IF HasKey(e.data, obj.key)
             THEN LET line_obj == e.data[IndexOf(e.data, obj.key)]
                  IN  ParserState(Store(st.slha, st.processing,
                                        BlockSetItem(e, obj.key, InfoLineAppend(line_obj, obj.vals[1], obj.cmts[1]))),
                                  st.processing, st.comment, "")
             ELSE ParserState(Store(st.slha, st.processing, BlockSetItem(e, obj.key, obj)),
                              st.processing, st.comment, "")
        ELSE ParserState(st.slha, st.processing, st.comment, "InvalidFormat")

\* lines 76-78: a data line inside an ordinary block
FillBlock(st, obj) ==
    ParserState(Store(st.slha, st.processing, BlockSetItem(Deref(st.slha, st.processing), obj.key, obj)),
                st.processing, st.comment, "")

\* lines 80-85: a data line inside a decay block
FillDecay(st, obj) ==
    IF obj.k = "decay"
    THEN ParserState(Store(st.slha, st.processing, DecaySetItem(Deref(st.slha, st.processing), obj.key, obj)),
                     st.processing, st.comment, "")
    ELSE ParserState(st.slha, st.processing, st.comment, "InvalidFormat")

\* lines 62-100: a data line
ParseDataLine(st, obj) ==
    IF in_info_block(st.slha, st.processing)
    THEN AttachComment(FillInfoBlock(st, obj), obj)
    ELSE IF st.processing.k = "block"
    THEN AttachComment(FillBlock(st, obj), obj)
    ELSE IF st.processing.k = "decay"
    THEN AttachComment(FillDecay(st, obj), obj)
    ELSE ParserState(st.slha, st.processing, st.comment, "OrphanLine")

\* an unrecognized line that empties the comment buffer
ParseUnrecognized_clear(st) == ParserState(st.slha, st.processing, <<>>, "UnrecognizedLine")

\* lines 101-102: no line object
ParseUnrecognized(st) == ParserState(st.slha, st.processing, st.comment, "UnrecognizedLine")

\* lines 42-102
ParseLine(st, obj) ==
    IF obj.k = "block" THEN ParseBlockLine(st, obj)
    ELSE IF obj.k = "decayhead" THEN ParseDecayBlockLine(st, obj)
    ELSE IF obj.k = "comment" THEN ParseCommentLine(st, obj)
    ELSE IF obj.k # "none" THEN ParseDataLine(st, obj)
    ELSE ParseUnrecognized(st)

\* lines 103-105: the end of the input
ParseEnd(st) ==
    IF st.comment # <<>>
    THEN [st.slha EXCEPT !.tail_comment = st.comment]
    ELSE st.slha

\* the state of the loop after the lines of text
RECURSIVE ParseLines(_, _)
ParseLines(st, text) ==
    IF text = <<>> THEN st ELSE ParseLines(ParseLine(st, Head(text)), Tail(text))

\* SLHAParser.parse(text)
parse(text) == ParseEnd(ParseLines(InitialParserState, text))

(***************************************************************************)
(* Ordering helpers: list.sort / sorted are stable, tuples compare         *)
(* lexicographically                                                       *)
(***************************************************************************)
RECURSIVE LexLess(_, _)
LexLess(a, b) ==
    IF a = <<>> THEN b # <<>>
    ELSE IF b = <<>> THEN FALSE
    ELSE IF a[1] # b[1] THEN a[1] < b[1]
    ELSE LexLess(Tail(a), Tail(b))

\* sorted(s, key=...): element i goes behind the elements below it and
\* behind the earlier elements that tie with it
SortBy(s, Less(_, _)) ==
    LET n == Len(s)
        rank(i) == Cardinality({j \in 1..n : Less(s[j], s[i]) \/ (j < i /\ ~Less(s[i], s[j]))})
    IN  [r \in 1..n |-> s[CHOOSE i \in 1..n : rank(i) = r - 1]]

RECURSIVE Flatten(_)
Flatten(ss) == IF ss = <<>> THEN <<>> ELSE Head(ss) \o Flatten(Tail(ss))

Abs(n) == IF n < 0 THEN -n ELSE n

\* str.__lt__ over the upper-case names of the model, by their place in the alphabet
NamesABC == <<"ALPHA", "MASS", "SPINFO">>

StrLess(a, b) ==
    \E i, j \in 1..Len(NamesABC) : NamesABC[i] = a /\ NamesABC[j] = b /\ i < j

(***************************************************************************)
(* utility.py                                                              *)
(***************************************************************************)
BLOCKS_DEFAULT_ORDER ==
    << "SPINFO", "DCINFO", "MODSEL", "SMINPUTS", "MINPAR", "EXTPAR",
       "VCKMIN", "UPMNSIN", "MSQ2IN", "MSU2IN", "MSD2IN", "MSL2IN", "MSE2IN", "TUIN", "TDIN", "TEIN",
       "MASS", "NMIX", "UMIX", "VMIX", "ALPHA", "FRALPHA", "HMIX", "GAUGE", "MSOFT",
       "MSQ2", "MSU2", "MSD2", "MSL2", "MSE2",
       "STOPMIX", "SBOTMIX", "STAUMIX", "USQMIX", "DSQMIX", "SELMIX", "SNUMIX",
       "AU", "AD", "AE", "TU", "TD", "TE", "YU", "YD", "YE" >>

\* the listed names first, in the list's order, then the others as they came
sort_blocks_default(block_names) ==
    LET names  == [i \in 1..Len(block_names) |-> Upper(block_names[i])]
        isIn(n) == \E i \in 1..Len(names) : names[i] = n
        listed(n) == \E i \in 1..Len(BLOCKS_DEFAULT_ORDER) : BLOCKS_DEFAULT_ORDER[i] = n
        unlisted(n) == ~listed(n)
    IN  SelectSeq(BLOCKS_DEFAULT_ORDER, isIn) \o SelectSeq(names, unlisted)

PID_GROUPS == <<"sm", "gluino", "sq-up", "sq-down", "neut", "char", "slep", "snu", "susy", "others", "not_int">>

\* the group of one key of sort_pids_default; a one-index key <<i>> is the int i
pid_group(key) ==
    IF Len(key) # 1 THEN "not_int"
    ELSE LET i == key[1]
             j == i % 1000000
         IN  IF i < 1000000 THEN "sm"
             ELSE IF i >= 3000000 THEN "others"
             ELSE IF i = 1000021 THEN "gluino"
             ELSE IF j <= 6 THEN (IF j % 2 = 1 THEN "sq-down" ELSE "sq-up")
             ELSE IF i \in {1000022, 1000023, 1000025, 1000035} THEN "neut"
             ELSE IF i \in {1000024, 1000037} THEN "char"
             ELSE IF j \in {11, 13, 15} THEN "slep"
             ELSE IF j \in {12, 14, 16} THEN "snu"
             ELSE "susy"

\* the groups in their order, each as its keys were inserted
sort_pids_grouped(pids) ==
    LET group(g) == LET inG(k) == pid_group(k) = g
                    IN  SelectSeq(pids, inG)
    IN  Flatten([g \in 1..Len(PID_GROUPS) |-> group(PID_GROUPS[g])])

sort_pids_default(pids) ==
    LET group(g) == LET inG(k) == pid_group(k) = g
                    IN  SortBy(SelectSeq(pids, inG), LexLess)
    IN  Flatten([g \in 1..Len(PID_GROUPS) |-> group(PID_GROUPS[g])])

\* copy_sorted_decay_block.ordering: SUSY first, smaller first, positive first
ordering(pid) ==
    <<IF Abs(pid) < 1000000 THEN 1 ELSE 0, Abs(pid), IF pid < 0 THEN 1 ELSE 0>>

OrderingLess(p, q) == LexLess(ordering(p), ordering(q))

ch_sorted(ch) == SortBy(ch, OrderingLess)

sort_key(ch) == <<Len(ch)>> \o Flatten([i \in 1..Len(ch) |-> ordering(ch[i])])

SortKeyLess(m, n) == LexLess(sort_key(m.new), sort_key(n.new))

BrGreater(m, n) == m.br > n.br

\* the grouping loop: a group runs until the first entry below 95 % of its first
RECURSIVE group_similar_br(_)
group_similar_br(tmp) ==
    IF tmp = <<>> THEN <<>>
    ELSE LET breaks == {j \in 2..Len(tmp) : 100 * tmp[j].br < 95 * tmp[1].br}
             j == IF breaks = {} THEN Len(tmp) + 1
                  ELSE CHOOSE x \in breaks : \A y \in breaks : x <= y
         IN  <<SubSeq(tmp, 1, j - 1)>> \o group_similar_br(SubSeq(tmp, j, Len(tmp)))

(***************************************************************************)
(* Numbers.  A number read from the text has up to 11 significant digits   *)
(* and is a multiple of 1; Decay.br keeps 10 of them ('{:.10g}'), a        *)
(* multiple of 10; the dumper prints 9 ('{:16.8E}'), a multiple of 100.    *)
(***************************************************************************)
\* float('{:.10g}'.format(v))
round_10g(v) == ((v + 5) \div 10) * 10

\* SLHADumper._e_float, read back
E_FLOAT(v) == ((v + 50) \div 100) * 100

(***************************************************************************)
(* core.py: the Decay methods the dumper uses                              *)
(***************************************************************************)
\* Decay.br(channel)
br(e, channel) ==
    IF HasKey(e.data, channel)
    THEN round_10g(e.data[IndexOf(e.data, channel)].value \div e.width)
    ELSE 0

\* Decay.items_br(): not rounded
items_br(e) == [i \in 1..Len(e.data) |-> [key |-> e.data[i].key, br |-> e.data[i].value \div e.width]]

\* Decay.rename_channel raises KeyError
rename_channel_raises(e, old, new) ==
    ~HasKey(e.data, old) \/ (new # old /\ HasKey(e.data, new))

\* Decay.rename_channel(old, new): the channel is deleted and set again, so
\* it moves to the end and its partial width becomes width * br(old)
rename_channel(e, old, new) ==
    IF rename_channel_raises(e, old, new) THEN e
    ELSE LET old_br           == br(e, old)
             old_comment      == e.data[IndexOf(e.data, old)].cmt
             old_line_comment == line_comment(e, PosKey(old))
             deleted == clear_line_comment([e EXCEPT !.data = DictDel(@, old)], PosKey(old))
             renamed == [deleted EXCEPT !.data = DictSet(@, new, PartialWidth(new, deleted.width * old_br, old_comment))]
         IN  IF old_line_comment # <<>>
             THEN set_line_comment(renamed, PosKey(new), old_line_comment)
             ELSE renamed

RECURSIVE rename_channels(_, _)
rename_channels(e, ch_mapping) ==
    IF ch_mapping = <<>> THEN e
    ELSE rename_channels(rename_channel(e, Head(ch_mapping).old, Head(ch_mapping).new), Tail(ch_mapping))

\* utility.copy_sorted_decay_block.  Decay(decay), the copy constructor,
\* takes over _data and _comment_lines of the original by reference: the
\* renamings are done on the original's own dictionaries, and the value
\* returned here is the state of both the copy and the original.
sorted_ch_mapping(decay, sort_by_br) ==
    LET brs == items_br(decay)
        ch_mapping == [i \in 1..Len(brs) |-> [old |-> brs[i].key, new |-> ch_sorted(brs[i].key), br |-> brs[i].br]]
        groups == group_similar_br(SortBy(ch_mapping, BrGreater))
    IN  IF sort_by_br
        THEN Flatten([g \in 1..Len(groups) |-> SortBy(groups[g], SortKeyLess)])
        ELSE SortBy(ch_mapping, SortKeyLess)

copy_sorted_decay_block(decay, sort_by_br) == rename_channels(decay, sorted_ch_mapping(decay, sort_by_br))

\* one of the rename_channel calls of copy_sorted_decay_block raises KeyError
RECURSIVE rename_channels_raise(_, _)
rename_channels_raise(e, ch_mapping) ==
    /\ ch_mapping # <<>>
    /\ \/ rename_channel_raises(e, Head(ch_mapping).old, Head(ch_mapping).new)
       \/ rename_channels_raise(rename_channel(e, Head(ch_mapping).old, Head(ch_mapping).new), Tail(ch_mapping))

copy_sorted_decay_block_raises(decay, sort_by_br) ==
    rename_channels_raise(decay, sorted_ch_mapping(decay, sort_by_br))

(***************************************************************************)
(* core.py: head_line and value_lines of Block and Decay                   *)
(***************************************************************************)
head_line(e) ==
    IF e.k = "block"
    THEN BlockLine(e.name, e.head_comment)
    ELSE DecayBlockLine(e.pid, e.width, e.head_comment)

\* the line object value_lines lists for the i-th entry: the stored line of a
\* Block, a new DecayLine(br(ch), ch, comment(ch)) of a Decay
value_line(e, i) ==
    IF e.k = "block"
    THEN e.data[i]
    ELSE DecayLine(e.data[i].key, br(e, e.data[i].key), e.data[i].cmt)

\* value_lines(with_comment_lines): result[key] is line_comment(key), the
\* list stored in _comment_lines when the key has one, and the value line is
\* appended to that very list.  lists is the result, e the entity afterwards.
value_lines(e, with_comment_lines) ==
    LET own(i) == IF with_comment_lines THEN line_comment(e, PosKey(e.data[i].key)) ELSE <<>>
        cl == e.comment_lines
        appended(c) ==
            IF cl[c].key.p = "key" /\ HasKey(e.data, cl[c].key.key)
            THEN [cl[c] EXCEPT !.lines = Append(@, value_line(e, IndexOf(e.data, cl[c].key.key)))]
            ELSE cl[c]
    IN  [lists |-> [i \in 1..Len(e.data) |-> [key |-> e.data[i].key, lines |-> Append(own(i), value_line(e, i))]],
         e     |-> IF with_comment_lines
                   THEN [e EXCEPT !.comment_lines = [c \in 1..Len(cl) |-> appended(c)]]
                   ELSE e]

(***************************************************************************)
(* dumper.py: AbsDumper.  o is the dumper object, i.e. its options         *)
(***************************************************************************)
BlocksOrder      == {"DEFAULT", "KEEP", "ABC"}
ValuesOrder      == {"DEFAULT", "KEEP", "SORTED"}
CommentsPreserve == {"NONE", "TAIL", "ALL"}

keep_line(o) == o.comments_preserve = "ALL"
keep_tail(o) == o.comments_preserve # "NONE"

\* the block names in dumping order
blocks_sorted(o, s) ==
    LET block_names == DictKeys(s.blocks)
    IN  IF o.blocks_order = "KEEP" THEN block_names
        ELSE IF o.blocks_order = "ABC" THEN SortBy(block_names, StrLess)
        ELSE sort_blocks_default(block_names)

\* the decay PIDs in dumping order
decays_sorted(o, s) ==
    LET pids == DictKeys(s.decays)
        less(a, b) == a < b
        keys == sort_pids_default([i \in 1..Len(pids) |-> <<pids[i]>>])
    IN  IF o.values_order = "KEEP" THEN pids
        ELSE IF o.values_order = "SORTED" THEN SortBy(pids, less)
        ELSE [i \in 1..Len(keys) |-> keys[i][1]]

block_lines_with_key_order(o, block) ==
    LET vl   == value_lines(block, keep_line(o))
        keys == DictKeys(vl.lists)
        ord  == IF o.values_order = "DEFAULT" /\ block.name = "MASS" THEN sort_pids_default(keys)
                ELSE IF o.values_order # "KEEP" THEN SortBy(keys, LexLess)
                ELSE keys
    IN  [lines |-> Flatten([i \in 1..Len(ord) |-> vl.lists[IndexOf(vl.lists, ord[i])].lines]),
         e     |-> vl.e]

decay_lines_with_key_order(o, decay) ==
    LET sorted_decay == IF o.values_order = "DEFAULT" THEN copy_sorted_decay_block(decay, TRUE)
                        ELSE IF o.values_order = "SORTED" THEN copy_sorted_decay_block(decay, FALSE)
                        ELSE decay
        vl == value_lines(sorted_decay, keep_line(o))
    IN  [lines |-> Flatten([i \in 1..Len(vl.lists) |-> vl.lists[i].lines]),
         e     |-> vl.e]

(***************************************************************************)
(* dumper.py: SLHADumper                                                   *)
(***************************************************************************)
\* TAIL_COMMENTS_RE.sub('#', line) unless keep_tail
tail_of(o, cmt) == IF keep_tail(o) THEN cmt ELSE ""

\* dump_line: the written lines of one line object
dump_line(o, obj) ==
    IF obj.k = "comment" THEN (IF keep_line(o) THEN <<CommentLine(obj.text)>> ELSE <<>>)
    ELSE IF obj.k = "block" THEN <<BlockLine(Upper(obj.name), tail_of(o, obj.cmt))>>
    ELSE IF obj.k = "decayhead" THEN <<DecayBlockLine(obj.pid, E_FLOAT(obj.value), tail_of(o, obj.cmt))>>
    ELSE IF obj.k = "decay" THEN <<DecayLine(obj.key, E_FLOAT(obj.value), tail_of(o, obj.cmt))>>
    ELSE IF obj.k = "info"
         THEN [i \in 1..Len(obj.vals) |->
                  InfoLine(obj.key, obj.vals[i], tail_of(o, IF Len(obj.cmts) >= i THEN obj.cmts[i] ELSE ""))]
    ELSE IF obj.k = "value" THEN <<ValueLine(obj.key, E_FLOAT(obj.value), tail_of(o, obj.cmt))>>
    ELSE <<>>

\* dump_block and dump_decay: lines is the written text, e the entity afterwards
dump_entity(o, e, body) ==
    LET head == IF keep_line(o)
                THEN line_comment(e, PosPrefix) \o <<head_line(e)>> \o line_comment(e, PosHeading)
                ELSE <<head_line(e)>>
        tail == IF keep_line(o) THEN line_comment(e, PosSuffix) ELSE <<>>
        objs == head \o body.lines \o tail
    IN  [lines |-> Flatten([i \in 1..Len(objs) |-> dump_line(o, objs[i])]),
         e     |-> body.e]

dump_block(o, block) == dump_entity(o, block, block_lines_with_key_order(o, block))

dump_decay(o, decay) == dump_entity(o, decay, decay_lines_with_key_order(o, decay))

\* '# written by <pkgname> <version>' and the lines that start with
\* '# written by <pkgname>', over the comment texts of the model
VersionString == "# written by yaslha 0.2.0"

\* what an earlier release wrote
OlderVersionString == "# written by yaslha 0.1.0"

\* the comment texts of the model that start with version_string_old,
\* '# written by yaslha'
WrittenBy == {VersionString, OlderVersionString}

\* a test that knows the stamp of this release only
is_this_version_line(l) == l.k = "comment" /\ l.text = VersionString

is_version_line(l) == l.k = "comment" /\ l.text \in WrittenBy

\* SLHADumper.dump.  The local tail_comment is filled from slha.tail_comment
\* (and closed by '#' under separate_blocks) but is not joined into lines.
dump(o, s) ==
    LET join(blocks) ==
            LET separated == [i \in 1..Len(blocks) |->
                                 IF o.separate_blocks /\ i > 1 /\ blocks[i][1] # CommentLine("#")
                                 THEN <<CommentLine("#")>> \o blocks[i]
                                 ELSE blocks[i]]
                not_version(l) == ~is_version_line(l)
            IN  (IF o.write_version THEN <<CommentLine(VersionString)>> ELSE <<>>)
                    \o SelectSeq(Flatten(separated), not_version)
        after(bn, bs, dn, ds) ==
            [s EXCEPT
                !.blocks = [i \in 1..Len(s.blocks) |->
                               [s.blocks[i] EXCEPT !.obj = bs[CHOOSE j \in 1..Len(bn) : bn[j] = s.blocks[i].key].e]],
                !.decays = [i \in 1..Len(s.decays) |->
                               [s.decays[i] EXCEPT !.obj = ds[CHOOSE j \in 1..Len(dn) : dn[j] = s.decays[i].key].e]]]
        result(bn, bs, dn, ds) ==
            [text |-> join([i \in 1..Len(bs) |-> bs[i].lines] \o [i \in 1..Len(ds) |-> ds[i].lines]),
             slha |-> after(bn, bs, dn, ds)]
        run(bn, dn) ==
            result(bn, [i \in 1..Len(bn) |-> dump_block(o, s.blocks[IndexOf(s.blocks, bn[i])].obj)],
                   dn, [i \in 1..Len(dn) |-> dump_decay(o, s.decays[IndexOf(s.decays, dn[i])].obj)])
    IN  run(blocks_sorted(o, s), decays_sorted(o, s))

\* script.convert: parse, then dump
convert(o, text) == dump(o, parse(text)).text

(***************************************************************************)
(* _collections.py: OrderedCaseInsensitiveDict, over a sequence of         *)
(* [key, obj] entries                                                      *)
(***************************************************************************)
\* a normalisation that keeps the letter case
n_keep_case(key) == key

\* OrderedCaseInsensitiveDict._n for a str key
CIDict_n(key) == Upper(key)

CIDict_contains(d, key) == HasKey(d, CIDict_n(key))

CIDict_setitem(d, key, value) == DictSet(d, CIDict_n(key), [key |-> CIDict_n(key), obj |-> value])

CIDict_delitem(d, key) == DictDel(d, CIDict_n(key))

\* the place of d[key] in d, 0 for KeyError
CIDict_find(d, key) == IF CIDict_contains(d, key) THEN IndexOf(d, CIDict_n(key)) ELSE 0

(***************************************************************************)
(* _collections.py: _OrderedNormalizedDict and its two classes.  cls is    *)
(* "ci" for OrderedCaseInsensitiveDict and "to" for                        *)
(* OrderedTupleOrderInsensitiveDict; d is the underlying OrderedDict, a    *)
(* sequence of [key, obj] entries.                                         *)
(***************************************************************************)
MapClasses == {"ci", "to"}

IntLess(a, b) == a < b

\* a normalisation that keeps the order of the tuple's elements
n_keep_order(key) == key

\* OrderedTupleOrderInsensitiveDict._n for a tuple key
TODict_n(key) == SortBy(key, IntLess)

\* cls._n(key)
OND_n(cls, key) == IF cls = "ci" THEN CIDict_n(key) ELSE TODict_n(key)

OND_setitem(cls, d, key, value) ==
    DictSet(d, OND_n(cls, key), [key |-> OND_n(cls, key), obj |-> value])

\* __delitem__, pop without a default and move_to_end raise KeyError
OND_missing(cls, d, key) == ~HasKey(d, OND_n(cls, key))

OND_delitem(cls, d, key) == DictDel(d, OND_n(cls, key))

\* pop: the map afterwards; with a default a missing key changes nothing
OND_pop(cls, d, key) ==
    IF HasKey(d, OND_n(cls, key)) THEN DictDel(d, OND_n(cls, key)) ELSE d

OND_move_to_end(cls, d, key, last) ==
    LET k == OND_n(cls, key)
        moved(item, rest) == IF last THEN Append(rest, item) ELSE <<item>> \o rest
    IN  moved(d[IndexOf(d, k)], DictDel(d, k))

\* update(pairs): OrderedDict.update stores each pair through __setitem__
RECURSIVE OND_update(_, _, _)
OND_update(cls, d, pairs) ==
    IF pairs = <<>> THEN d
    ELSE OND_update(cls, OND_setitem(cls, d, Head(pairs).key, Head(pairs).obj), Tail(pairs))

\* OrderedDict(pairs): the keys are taken as they are
RECURSIVE OrderedDict_new(_)
OrderedDict_new(pairs) ==
    IF pairs = <<>> THEN <<>>
    ELSE LET rest == OrderedDict_new(SubSeq(pairs, 1, Len(pairs) - 1))
         IN  DictSet(rest, pairs[Len(pairs)].key, pairs[Len(pairs)])

\* __init__: a temporary OrderedDict, whose items are then set one by one
OND_init(cls, pairs) == [cls |-> cls, d |-> OND_update(cls, <<>>, OrderedDict_new(pairs))]

(***************************************************************************)
(* block.py and slha.py: Block and the accessors of SLHA.  A block is its  *)
(* head's name and its _data, a sequence of [key, value] lines.  spelled   *)
(* remembers under which spellings each living block has been written.     *)
(***************************************************************************)
\* Block(BlockHeadLine(name=name)): the head's name setter stores name.upper()
Block_new(name) == [name |-> Upper(name), data |-> <<>>]

\* Block.__setitem__
Block_setitem(b, key, value) == [b EXCEPT !.data = DictSet(@, key, [key |-> key, value |-> value])]

\* Block.__delitem__, KeyError if the key is missing
Block_delitem(b, key) == [b EXCEPT !.data = DictDel(@, key)]

\* SLHA(): blocks is a CIDict, decays an OrderedDict from pid to Decay
EmptyDoc == [blocks |-> <<>>, spelled |-> {}, decays |-> <<>>]

Spelled(s, name) == [s EXCEPT !.spelled = @ \cup {<<CIDict_n(name), name>>}]

\* SLHA.add_block(obj) for a block
add_block(s, obj) == [s EXCEPT !.blocks = CIDict_setitem(@, obj.name, obj)]

\* SLHA.__setitem__(name, block): the head's name is corrected, then stored
SLHA_setitem_block(s, name, value) ==
    [s EXCEPT !.blocks = CIDict_setitem(@, name, [value EXCEPT !.name = Upper(name)])]

\* SLHA.__setitem__((name, key), value): a missing block is created first;
\* the look-up of the block after that raises KeyError if it is not found
SLHA_setitem_value(s, name, key, value) ==
    LET s1 == IF ~CIDict_contains(s.blocks, name) THEN add_block(s, Block_new(name)) ELSE s
        i  == CIDict_find(s1.blocks, name)
    IN  IF i = 0 THEN s1
        ELSE [s1 EXCEPT !.blocks[i].obj = Block_setitem(@, key, value)]

\* SLHA.__delitem__((name, key)) raises KeyError
SLHA_delitem_value_raises(s, name, key) ==
    \/ CIDict_find(s.blocks, name) = 0
    \/ ~HasKey(s.blocks[CIDict_find(s.blocks, name)].obj.data, key)

SLHA_delitem_value(s, name, key) ==
    [s EXCEPT !.blocks[CIDict_find(s.blocks, name)].obj = Block_delitem(@, key)]

\* SLHA.__delitem__(name), KeyError if there is no such block
SLHA_delitem_block(s, name) ==
    [s EXCEPT !.blocks = CIDict_delitem(@, name),
              !.spelled = {p \in @ : p[1] # CIDict_n(name)}]

\* SLHA.__getitem__(name): the place of the block, 0 for KeyError
SLHA_getitem(s, name) == CIDict_find(s.blocks, name)

(***************************************************************************)
(* Numbers of the Decay methods: floats are modelled as exact fractions    *)
(* [n, d] in lowest terms with d > 0, so that sums, products and quotients *)
(* carry no rounding.                                                      *)
(***************************************************************************)
RECURSIVE Gcd(_, _)
Gcd(a, b) == IF b = 0 THEN a ELSE Gcd(b, a % b)

Rat(n, d) ==
    LET g == Gcd(Abs(n), Abs(d))
    IN  IF d < 0 THEN [n |-> (0 - n) \div g, d |-> (0 - d) \div g] ELSE [n |-> n \div g, d |-> d \div g]

Zero == [n |-> 0, d |-> 1]
One  == [n |-> 1, d |-> 1]

RAdd(a, b) ==
    LET g == Gcd(a.d, b.d)
    IN  Rat(a.n * (b.d \div g) + b.n * (a.d \div g), (a.d \div g) * b.d)

RSub(a, b) == RAdd(a, [n |-> 0 - b.n, d |-> b.d])

\* the factors are reduced crosswise before they are multiplied
RMul(a, b) ==
    LET g1 == Gcd(Abs(a.n), b.d)
        g2 == Gcd(Abs(b.n), a.d)
    IN  Rat((a.n \div g1) * (b.n \div g2), (a.d \div g2) * (b.d \div g1))

\* a / b for b # 0
RDiv(a, b) == RMul(a, Rat(b.d, b.n))

\* a < b, by the integer parts and then the remainders
RECURSIVE RLess(_, _)
RLess(a, b) ==
    LET qa == a.n \div a.d
        qb == b.n \div b.d
        ra == a.n % a.d
        rb == b.n % b.d
    IN  IF qa # qb THEN qa < qb
        ELSE IF ra = 0 THEN rb # 0
        ELSE IF rb = 0 THEN FALSE
        ELSE RLess([n |-> b.d, d |-> rb], [n |-> a.d, d |-> ra])

RECURSIVE RSum(_)
RSum(s) == IF s = <<>> THEN Zero ELSE RAdd(Head(s), RSum(Tail(s)))

(***************************************************************************)
(* block.py: Decay.  head.width is width; _data is an                      *)
(* OrderedTupleOrderInsensitiveDict of [key, obj] entries whose obj is the *)
(* DecayLine [key, br], key being the channel as the line was given it.    *)
(* The methods that can raise yield [decay, raised]: the object as the     *)
(* call leaves it, and the exception's name or "".                         *)
(***************************************************************************)
\* Decay.br_normalize_threshold = 1.0e-6
br_normalize_threshold == Rat(1, 1000000)

\* Decay(DecayHeadLine(pid, width)); Decay(pid) has width 0
Decay_new(pid, width) == [pid |-> pid, width |-> width, data |-> <<>>]

\* DecayLine(br, channel)
Decay_line(value, channel) == [key |-> channel, br |-> value]

\* Decay.update_line
Decay_update_line(dc, line) ==
    [dc EXCEPT !.data = OND_setitem("to", @, line.key, line)]

\* a look-up that takes the channel as it is written
Decay_br_as_written(dc, key) ==
    IF HasKey(dc.data, key) THEN dc.data[IndexOf(dc.data, key)].obj.br ELSE Zero

\* Decay.br
Decay_br(dc, key) ==
    IF ~OND_missing("to", dc.data, key)
    THEN dc.data[IndexOf(dc.data, OND_n("to", key))].obj.br
    ELSE Zero

\* Decay.partial_width
Decay_partial_width(dc, key) == RMul(dc.width, Decay_br(dc, key))

\* the total of normalize: the sum of the BRs (the order of the summands,
\* smallest first, does not change an exact sum)
Decay_total(dc) == RSum([i \in 1..Len(dc.data) |-> dc.data[i].obj.br])

\* a rescaling that multiplies where it should divide
Decay_rescale_times(dc, total) ==
    [dc EXCEPT !.data = [i \in 1..Len(@) |-> [@[i] EXCEPT !.obj.br = RMul(@, total)]]]

\* for v in self._data.values(): v.br /= total
Decay_rescale(dc, total) ==
    [dc EXCEPT !.data = [i \in 1..Len(@) |-> [@[i] EXCEPT !.obj.br = RDiv(@, total)]]]

\* a test that raises from the threshold on
exceeds_from_threshold(total) == ~RLess(total, RAdd(One, br_normalize_threshold))

\* total > 1 + self.br_normalize_threshold
exceeds_threshold(total) == RLess(RAdd(One, br_normalize_threshold), total)

\* Decay.normalize
Decay_normalize(dc, force) ==
    LET branch(total) ==
            IF ~RLess(Zero, total) THEN [decay |-> dc, raised |-> ""]
            ELSE IF force THEN [decay |-> Decay_rescale(dc, total), raised |-> ""]
            ELSE IF exceeds_threshold(total) THEN [decay |-> dc, raised |-> "ValueError"]
            ELSE IF ~RLess(total, One) THEN [decay |-> Decay_rescale(dc, total), raised |-> ""]
            ELSE [decay |-> dc, raised |-> ""]
    IN  branch(Decay_total(dc))

\* a normalize that logs "BR for %d is less than unity" whenever the total
\* is short, whatever _br_warned says
Decay_normalize_warns_again(dc, force, br_warned) ==
    LET short(total) ==
            /\ RLess(Zero, total)
            /\ ~force
            /\ ~exceeds_threshold(total)
            /\ RLess(total, One)
            /\ RLess(br_normalize_threshold, RSub(One, total))
    IN  short(Decay_total(dc))

\* Decay.normalize logs "BR for %d is less than unity" and sets _br_warned
Decay_normalize_warns(dc, force, br_warned) ==
    LET short(total) ==
            /\ RLess(Zero, total)
            /\ ~force
            /\ ~exceeds_threshold(total)
            /\ RLess(total, One)
            /\ RLess(br_normalize_threshold, RSub(One, total))
    IN  short(Decay_total(dc)) /\ ~br_warned

\* the attribute, the normalizations and the log after normalize(force)
Decay_normalize_log(w, dc, force) ==
    LET n == Len(w.normalized) + 1
    IN  [br_warned  |-> w.br_warned \/ Decay_normalize_warns(dc, force, w.br_warned),
         normalized |-> Append(w.normalized, [force |-> force, total |-> Decay_total(dc)]),
         logged     |-> IF Decay_normalize_warns(dc, force, w.br_warned) THEN Append(w.logged, n)
                        ELSE w.logged]

\* the part of set_partial_width that follows self.normalize()
Decay_set_width(dc, key, new_partial_width) ==
    LET k == OND_n("to", key)
        present == ~OND_missing("to", dc.data, key)
        old_partial_width == IF present THEN Decay_partial_width(dc, key) ELSE Zero
        d1 == IF present THEN dc ELSE Decay_update_line(dc, Decay_line(Zero, key))
        old_width == dc.width
        new_width == RAdd(RSub(new_partial_width, old_partial_width), old_width)
        d2 == [d1 EXCEPT !.width = new_width]
        scaled(i) == IF d2.data[i].key = k
                     THEN RDiv(new_partial_width, new_width)
                     ELSE RMul(d2.data[i].obj.br, RDiv(old_width, new_width))
    IN  IF new_width = Zero
        THEN [decay |-> d2, raised |-> "ZeroDivisionError"]
        ELSE [decay |-> [d2 EXCEPT !.data = [i \in 1..Len(@) |-> [@[i] EXCEPT !.obj.br = scaled(i)]]],
              raised |-> ""]

\* Decay.set_partial_width(*key, new_partial_width)
Decay_set_partial_width(dc, key, new_partial_width) ==
    LET after(n) == IF n.raised # "" THEN n ELSE Decay_set_width(n.decay, key, new_partial_width)
    IN  IF Len(key) < 2 THEN [decay |-> dc, raised |-> "KeyError"]
        ELSE after(Decay_normalize(dc, FALSE))

\* Decay.remove(*key)
Decay_remove(dc, key) ==
    LET after(r) == IF r.raised # "" THEN r
                    ELSE [decay |-> [r.decay EXCEPT !.data = OND_delitem("to", @, key)], raised |-> ""]
    IN  after(Decay_set_partial_width(dc, key, Zero))

(***************************************************************************)
(* block.py: InfoBlock.  _data is a list of InfoLine [key, value]; a key   *)
(* may stand on several lines.                                             *)
(***************************************************************************)
\* str.rstrip over the values of the model
rstrip(v) == IF v = "w " THEN "w" ELSE v

\* InfoLine(key, value)
Info_line(key, value) == [key |-> key, value |-> rstrip(value)]

\* InfoBlock.__getitem__
Info_getitem(data, key) ==
    LET has_key(line) == line.key = key
        hits == SelectSeq(data, has_key)
    IN  [i \in 1..Len(hits) |-> hits[i].value]

\* InfoBlock.__delitem__
Info_delitem(data, key) ==
    LET other_key(line) == line.key # key
    IN  SelectSeq(data, other_key)

\* InfoBlock.__setitem__ for a list of values
Info_setitem(data, key, value) ==
    Info_delitem(data, key) \o [i \in 1..Len(value) |-> Info_line(key, value[i])]

\* InfoBlock.__setitem__ for a value that cannot be iterated, as a number:
\* the lines of the key are deleted before the list of new lines is built
Info_setitem_number(data, key) == [data |-> Info_delitem(data, key), raised |-> "TypeError"]

\* InfoBlock.update_line
Info_update_line(data, line) == Append(Info_delitem(data, line.key), line)

\* InfoBlock.append_line
Info_append_line(data, line) == Append(data, line)

\* an append that overrides the lines of the key
Info_append_overriding(data, key, value) == Info_update_line(data, Info_line(key, value))

\* InfoBlock.append
Info_append(data, key, value) == Info_append_line(data, Info_line(key, value))

(***************************************************************************)
(* slha.py and block.py: strict indexing and get.  A key of a block's      *)
(* _data is modelled by a tuple: <<>> is the key None of a no-index line,  *)
(* <<i>> the int i of a one-index line, and a longer tuple is that tuple.  *)
(* The results are [raised, value] for indexing, raised meaning KeyError,  *)
(* and [is_default, value] for get.                                        *)
(***************************************************************************)
\* SLHA.__setitem__(pid, decay): the head's pid is corrected, then stored
SLHA_setitem_decay(s, pid, value) ==
    [s EXCEPT !.decays = DictSet(@, pid, [key |-> pid, obj |-> [value EXCEPT !.pid = pid]])]

Raised == [raised |-> TRUE, value |-> 0]

Returned(value) == [raised |-> FALSE, value |-> value]

Default(d) == [is_default |-> TRUE, value |-> d]

Found(value) == [is_default |-> FALSE, value |-> value]

\* Block.__getitem__
Block_getitem(b, key) ==
    IF HasKey(b.data, key) THEN Returned(b.data[IndexOf(b.data, key)].value) ELSE Raised

\* the tuple that *key binds is in _data: it equals no None and no int
Block_has_tuple(b, args) == Len(args) >= 2 /\ HasKey(b.data, args)

\* Block.get(*key, default)
Block_get(b, args, default) ==
    IF Block_has_tuple(b, args) THEN Found(Block_getitem(b, args).value) ELSE Default(default)

\* SLHA.__getitem__(name)
SLHA_getitem_str(s, name) ==
    IF CIDict_contains(s.blocks, name) THEN Returned(s.blocks[CIDict_find(s.blocks, name)].obj)
    ELSE Raised

\* SLHA.__getitem__(pid)
SLHA_getitem_int(s, pid) ==
    IF HasKey(s.decays, pid) THEN Returned(s.decays[IndexOf(s.decays, pid)].obj) ELSE Raised

\* SLHA.__getitem__((first, *rest)) for a tuple: deeper indexing needs a
\* block name first and at least one more element
SLHA_getitem_tuple(s, first_is_str, first, rest) ==
    IF Len(rest) >= 1 /\ first_is_str
    THEN IF CIDict_contains(s.blocks, first)
         THEN Block_getitem(s.blocks[CIDict_find(s.blocks, first)].obj, rest[1])
         ELSE Raised
    ELSE Raised

\* SLHA.get(first, *rest, default): __getitem__ is given the tuple of the
\* arguments; rest is <<>> or <<key>> with the key of the block's line
SLHA_get(s, first_is_str, first, rest, default) ==
    LET caught(r) == IF r.raised THEN Default(default) ELSE Found(r.value)
    IN  caught(SLHA_getitem_tuple(s, first_is_str, first, rest))

(***************************************************************************)
(* slha.py with copy.copy and copy.deepcopy.  SLHA defines no copy hooks,  *)
(* so copy.copy makes a new SLHA object whose attributes blocks and decays *)
(* are the dictionaries of the original, and copy.deepcopy makes new       *)
(* dictionaries with copies of everything in them.  heap maps a reference  *)
(* to the dictionary it denotes; obj maps a name to the references held by *)
(* the attributes of its SLHA object, 0 where the name is not bound.       *)
(***************************************************************************)
\* slha = SLHA(); c is not bound yet
NewMemory ==
    [heap |-> [r \in 1..4 |-> <<>>],
     obj  |-> [h \in {"slha", "c"} |-> IF h = "slha" THEN [blocks |-> 1, decays |-> 2]
                                                     ELSE [blocks |-> 0, decays |-> 0]],
     kind |-> "",
     edits |-> 0,
     last |-> [h |-> "", other |-> EmptyDoc]]

\* the SLHA object of a name, read through its attributes
SLHA_of(m, h) ==
    [blocks |-> m.heap[m.obj[h].blocks], decays |-> m.heap[m.obj[h].decays], spelled |-> {}]

\* a deepcopy whose SLHA object keeps the dictionaries of the original
deepcopy_sharing(m) == [m EXCEPT !.obj["c"] = m.obj["slha"], !.kind = "deepcopy"]

\* c = copy.copy(slha)
copy_copy(m) == [m EXCEPT !.obj["c"] = m.obj["slha"], !.kind = "copy"]

\* c = copy.deepcopy(slha)
copy_deepcopy(m) ==
    [m EXCEPT !.obj["c"] = [blocks |-> 3, decays |-> 4],
              !.heap[3] = m.heap[m.obj["slha"].blocks],
              !.heap[4] = m.heap[m.obj["slha"].decays],
              !.kind = "deepcopy"]

\* AbsBlock.new for a name ending in INFO, and slha[name, key] = [v1..vn]
SLHA_setitem_info(s, name, key, value) ==
    LET s1 == IF ~CIDict_contains(s.blocks, name) THEN add_block(s, Block_new(name)) ELSE s
    IN  [s1 EXCEPT !.blocks[CIDict_find(s1.blocks, name)].obj.data = Info_setitem(@, key, value)]

\* slha[name].append(key, value); KeyError without the block
SLHA_info_append(s, name, key, value) ==
    IF ~CIDict_contains(s.blocks, name) THEN s
    ELSE [s EXCEPT !.blocks[CIDict_find(s.blocks, name)].obj.data = Info_append(@, key, value)]

\* slha[pid].set_partial_width(*channel, w); KeyError without the decay
SLHA_set_partial_width(s, pid, channel, w) ==
    IF ~HasKey(s.decays, pid) THEN s
    ELSE [s EXCEPT !.decays[IndexOf(s.decays, pid)].obj = Decay_set_partial_width(@, channel, w).decay]

\* the edit is made through the name h: the dictionaries its attributes
\* refer to are the ones that change
EditThrough(m, h, s) ==
    [m EXCEPT !.heap[m.obj[h].blocks] = s.blocks,
              !.heap[m.obj[h].decays] = s.decays,
              !.edits = @ + 1]

(***************************************************************************)
(* slha.py: registering Block and Decay objects.  The dictionaries hold    *)
(* references: blocks and decays map a key to an object, name and pid give *)
(* head.name and head.pid of each object.  The objects at hand are         *)
(* Block("mass"), Block("") and Decay(6), Decay(25).                       *)
(***************************************************************************)
NewRegistry ==
    [blocks |-> <<>>, decays |-> <<>>,
     name |-> <<"MASS", "">>, pid |-> <<6, 25>>,
     normalized |-> FALSE,
     last |-> [kind |-> "", obj |-> 0, name |-> "", pid |-> 0]]

\* SLHA.add_block(obj)
Reg_add_block(r, kind, obj) ==
    IF kind = "block"
    THEN [r EXCEPT !.blocks = CIDict_setitem(@, r.name[obj], obj)]
    ELSE [r EXCEPT !.decays = DictSet(@, r.pid[obj], [key |-> r.pid[obj], obj |-> obj])]

\* slha[name] = block: the name setter of the head line stores name.upper()
Reg_setitem_block(r, key, obj) ==
    [r EXCEPT !.name[obj] = Upper(key), !.blocks = CIDict_setitem(@, key, obj)]

\* slha[pid] = decay
Reg_setitem_decay(r, key, obj) ==
    [r EXCEPT !.pid[obj] = key, !.decays = DictSet(@, key, [key |-> key, obj |-> obj])]

\* SLHA.normalize(): the two loops, entry by entry
RECURSIVE Reg_normalize_from(_, _)
Reg_normalize_from(r, i) ==
    IF i <= Len(r.blocks)
    THEN Reg_normalize_from([r EXCEPT !.name[r.blocks[i].obj] = Upper(r.blocks[i].key)], i + 1)
    ELSE IF i <= Len(r.blocks) + Len(r.decays)
    THEN Reg_normalize_from([r EXCEPT !.pid[r.decays[i - Len(r.blocks)].obj] = r.decays[i - Len(r.blocks)].key], i + 1)
    ELSE r

Reg_normalize(r) == Reg_normalize_from(r, 1)

(***************************************************************************)
(* block.py and slha.py: merge.  A Block holds its ValueLine objects by    *)
(* reference: heap is the sequence of line objects made so far, and the    *)
(* _data of a block maps a key to the place of its line in heap.  Each of  *)
(* the SLHA objects a and b has its own blocks and decays dictionaries;    *)
(* a Decay is kept by value, since merge copies the decays.                *)
(***************************************************************************)
NewSLHA == [blocks |-> <<>>, decays |-> <<>>]

NoMergeView == [a |-> NewSLHA, b |-> NewSLHA]

NewMerge ==
    [heap |-> <<>>,
     slha |-> [h \in {"a", "b"} |-> NewSLHA],
     edits |-> 0,
     merged |-> FALSE,
     last |-> "",
     was |-> NoMergeView]

\* Block(BlockHeadLine(name, q, comment))
BlockObject(q, cmt) == [q |-> q, head_comment |-> cmt, data |-> <<>>]

\* ValueLine.new(key, value)
NewValueLine(key, value) == [key |-> key, value |-> value, comment |-> ""]

\* Block.update_line(line): self._data[line.key] = line, the line object itself
Block_update_line(heap, blk, ref) ==
    [blk EXCEPT !.data = DictSet(@, heap[ref].key, [key |-> heap[ref].key, obj |-> ref])]

\* Block.merge(another): every line of another is handed to update_line;
\* head.q and head.comment are not touched
RECURSIVE Block_merge_from(_, _, _, _)
Block_merge_from(heap, blk, another, i) ==
    IF i > Len(another.data) THEN blk
    ELSE Block_merge_from(heap, Block_update_line(heap, blk, another.data[i].obj), another, i + 1)

Block_merge(heap, blk, another) == Block_merge_from(heap, blk, another, 1)

\* copy.deepcopy(block): new line objects, placed at the end of heap
deepcopy_block(heap, blk) ==
    [heap  |-> heap \o [i \in 1..Len(blk.data) |-> heap[blk.data[i].obj]],
     block |-> [blk EXCEPT !.data = [i \in 1..Len(blk.data) |-> [@[i] EXCEPT !.obj = Len(heap) + i]]]]

\* a.merge(b): the loop over another.blocks, then decays.update(deepcopy)
RECURSIVE SLHA_merge_from(_, _, _, _)
SLHA_merge_from(heap, self, another, i) ==
    IF i > Len(another.blocks)
    THEN [heap |-> heap,
          slha |-> [self EXCEPT !.decays = LET RECURSIVE upd(_, _)
                                               upd(d, j) == IF j > Len(another.decays) THEN d
                                                            ELSE upd(DictSet(d, another.decays[j].key, another.decays[j]), j + 1)
                                           IN  upd(@, 1)]]
    ELSE LET name  == another.blocks[i].key
             block == another.blocks[i].obj
         IN  IF CIDict_contains(self.blocks, name)
             THEN LET k == CIDict_find(self.blocks, name)
                  IN  SLHA_merge_from(heap,
                                      [self EXCEPT !.blocks[k].obj = Block_merge(heap, @, block)],
                                      another, i + 1)
             ELSE LET c == deepcopy_block(heap, block)
                  IN  SLHA_merge_from(c.heap,
                                      [self EXCEPT !.blocks = CIDict_setitem(@, name, c.block)],
                                      another, i + 1)

SLHA_merge(heap, self, another) == SLHA_merge_from(heap, self, another, 1)

\* slha[name] = Block(BlockHeadLine(name, q, comment))
Merge_setitem_block(m, h, name, q, cmt) ==
    [m EXCEPT !.slha[h].blocks = CIDict_setitem(@, name, BlockObject(q, cmt))]

\* slha[name, key] = value: a missing block is made, then Block.__setitem__
\* writes the value into the line object of the key or makes a new line
Merge_setitem_value(m, h, name, key, value) ==
    LET m1 == IF CIDict_contains(m.slha[h].blocks, name) THEN m
              ELSE Merge_setitem_block(m, h, name, 0, "")
        k  == CIDict_find(m1.slha[h].blocks, name)
        blk == m1.slha[h].blocks[k].obj
    IN  IF HasKey(blk.data, key)
        THEN [m1 EXCEPT !.heap[blk.data[IndexOf(blk.data, key)].obj].value = value]
        ELSE [m1 EXCEPT !.heap = Append(@, NewValueLine(key, value)),
                        !.slha[h].blocks[k].obj = Block_update_line(Append(m1.heap, NewValueLine(key, value)),
                                                                    blk, Len(m1.heap) + 1)]

\* slha[name].comment[key] = comment: Block._set_comment; KeyError without
\* the block or the key
Merge_set_comment(m, h, name, key, cmt) ==
    LET k   == CIDict_find(m.slha[h].blocks, name)
        blk == m.slha[h].blocks[k].obj
    IN  IF k = 0 \/ ~HasKey(blk.data, key) THEN m
        ELSE [m EXCEPT !.heap[blk.data[IndexOf(blk.data, key)].obj].comment = cmt]

\* what an SLHA object holds: lines by value
SLHA_view(m, h) ==
    LET s == m.slha[h]
        seen(blk) == [q |-> blk.q, head_comment |-> blk.head_comment,
                      data |-> [i \in 1..Len(blk.data) |-> m.heap[blk.data[i].obj]]]
    IN  [blocks |-> [i \in 1..Len(s.blocks) |-> [key |-> s.blocks[i].key, obj |-> seen(s.blocks[i].obj)]],
         decays |-> s.decays]

(***************************************************************************)
(* The line grammar's results.  line.parse_string_in_info_block is used    *)
(* while an INFO block is open and yields heads, comments and info lines;  *)
(* line.parse_string is used otherwise and never yields an info line.      *)
(***************************************************************************)
Classifiable(st, obj) ==
    IF in_info_block(st.slha, st.processing)
    THEN obj.k \in {"block", "decayhead", "comment", "info", "none"}
    ELSE obj.k # "info"

\* the line objects of the model's input texts
InputLines ==
    { BlockLine("MASS", "h"), BlockLine("SPINFO", ""),
      DecayBlockLine(6, 100, ""),
      CommentLine("# a"), CommentLine("# b"),
      InfoLine(<<1>>, 7, "t"),
      ValueLine(<<1>>, 1000, "t"), ValueLine(<<2>>, 1549, ""),
      DecayLine(<<3, 3>>, 4000, "t"), DecayLine(<<2, 1>>, 3799, ""),
      NoLine }

CurrentState == ParserState(slha, processing, comment, warned)

(***************************************************************************)
(* Actions of the parser                                                   *)
(***************************************************************************)
\* one pass of the loop of SLHAParser.parse
Feed ==
    /\ ~done
    /\ Len(input) < MaxLines
    /\ \E obj \in InputLines :
          /\ Classifiable(CurrentState, obj)
          /\ LET st == ParseLine(CurrentState, obj)
             IN  /\ slha' = st.slha
                 /\ processing' = st.processing
                 /\ comment' = st.comment
                 /\ warned' = st.warned
          /\ input' = Append(input, obj)
    /\ UNCHANGED <<done, before, out, opts, doc, objVars>>

\* the loop ends and parse returns the SLHA object
Finish ==
    /\ ~done
    /\ slha' = ParseEnd(CurrentState)
    /\ done' = TRUE
    /\ warned' = ""
    /\ UNCHANGED <<input, processing, comment, before, out, opts, doc, objVars>>

\* Block("MASS") with no line, not dumped yet
NewMass == [keys |-> <<>>, written |-> <<>>, dumped |-> FALSE]

\* Decay(6, width) with no channel, not dumped yet
NewSorted == [decay |-> [NewDecay(6, 100) EXCEPT !.head_comment = ""], written |-> <<>>, raised |-> "", dumped |-> FALSE]

(***************************************************************************)
(* line.py: DecayLine.  A text is the sequence of its fields, the parts    *)
(* that white space separates, each [t, v]: t is "float" for a field that  *)
(* FLOAT matches and INT does not, "int" for one that INT matches, and     *)
(* "signs" for one of digits and signs that is no integer, as 1-2; v is    *)
(* the number written.  A dumped list is a sequence of numbers.  The       *)
(* result is a DecayLine [k |-> "line", key, value], None or ValueError.   *)
(***************************************************************************)
Field(t, v) == [t |-> t, v |-> v]

None == [k |-> "None", key |-> <<>>, value |-> Zero]

ValueError == [k |-> "ValueError", key |-> <<>>, value |-> Zero]

\* int(x) of a number: the fraction is cut off
int(x) == IF x.n < 0 THEN 0 - ((0 - x.n) \div x.d) ELSE x.n \div x.d

\* DecayLine.__init__(br, channel, nda): nda is not read
DecayLine_init(value, channel, nda) == [k |-> "line", key |-> channel, value |-> value]

\* DecayLine.pattern().match(line): FLOAT SEP INT SEP [0-9\s+-]+ TAIL
DecayLine_match(text) ==
    /\ Len(text) >= 3
    /\ text[1].t \in {"float", "int"}
    /\ text[2].t = "int"
    /\ \A i \in 3..Len(text) : text[i].t \in {"int", "signs"}

\* DecayLine.construct(line): cls(**match.groupdict()), the channel being
\* tuple(int(p) for p in re.split(r"\s+", channel.strip()))
DecayLine_construct(text) ==
    IF ~DecayLine_match(text) THEN None
    ELSE IF \E i \in 3..Len(text) : text[i].t = "signs" THEN ValueError
    ELSE DecayLine_init(text[1].v, [i \in 1..(Len(text) - 2) |-> int(text[i + 2].v)], int(text[2].v))

\* DecayLine._dump
DecayLine_dump(line) ==
    <<line.value, Rat(Len(line.key), 1)>> \o [i \in 1..Len(line.key) |-> Rat(line.key[i], 1)]

\* DecayLine._from_dump(dump) without keywords
DecayLine_from_dump(list) ==
    IF Len(list) >= 4
    THEN LET nda  == int(list[2])
             pids == [i \in 1..(Len(list) - 2) |-> int(list[i + 2])]
         IN  IF nda = Len(pids) THEN DecayLine_init(list[1], pids, nda) ELSE ValueError
    ELSE ValueError

\* nothing has been given to DecayLine yet
NothingMade == [op |-> "", text |-> <<>>, dump |-> <<>>, line |-> None]

\* a new Decay has no _br_warned attribute
NoWarning == [br_warned |-> FALSE, normalized |-> <<>>, logged |-> <<>>]

\* no call has been made yet
NoOp == [op |-> "", args |-> <<>>, raised |-> ""]

NoDump == [blocks_order |-> "", values_order |-> "", comments_preserve |-> "",
           separate_blocks |-> FALSE, write_version |-> FALSE]

InitParser ==
    /\ input = <<>>
    /\ slha = EmptySLHA
    /\ processing = NoRef
    /\ comment = <<>>
    /\ warned = ""
    /\ done = FALSE

Init ==
    /\ InitParser
    /\ before = EmptySLHA
    /\ out = <<>>
    /\ opts = NoDump
    /\ doc = EmptyDoc
    /\ omap = [cls |-> "ci", d |-> <<>>]
    /\ lastop = NoOp
    /\ dec = Decay_new(6, Zero)
    /\ was = dec
    /\ calls = 0
    /\ info = <<>>
    /\ mem = NewMemory
    /\ reg = NewRegistry
    /\ mg = NewMerge
    /\ mass = NewMass
    /\ srt = NewSorted
    /\ warn = NoWarning
    /\ made = NothingMade

NextParse == Feed \/ Finish

SpecParse == Init /\ [][NextParse]_vars

(***************************************************************************)
(* Actions of the dumper: a text is parsed, then dumped once               *)
(***************************************************************************)
DumperOptions ==
    [blocks_order : BlocksOrder, values_order : ValuesOrder, comments_preserve : CommentsPreserve,
     separate_blocks : BOOLEAN, write_version : BOOLEAN]

\* One line of a text that is going to be dumped.  A decay line inside an
\* ordinary block is left out: whether keys.sort() can compare its key with
\* the other keys is decided by the DecayLine class.
FeedDump ==
    /\ ~done
    /\ Len(input) < MaxDumpLines
    /\ \E obj \in InputLines \cup {CommentLine(t) : t \in WrittenBy} :
          /\ Classifiable(CurrentState, obj)
          /\ ~(obj.k = "decay" /\ processing.k = "block")
          /\ LET st == ParseLine(CurrentState, obj)
             IN  /\ slha' = st.slha
                 /\ processing' = st.processing
                 /\ comment' = st.comment
                 /\ warned' = st.warned
          /\ input' = Append(input, obj)
    /\ UNCHANGED <<done, before, out, opts, doc, objVars>>

\* yaslha.dump(slha, ...) with some options
Dump ==
    /\ done
    /\ opts = NoDump
    /\ \E o \in DumperOptions :
          \E r \in {dump(o, slha)} :
              /\ before' = slha
              /\ slha' = r.slha
              /\ out' = r.text
              /\ opts' = o
    /\ UNCHANGED <<input, processing, comment, warned, done, doc, objVars>>

NextDump == FeedDump \/ Finish \/ Dump

SpecDump == Init /\ [][NextDump]_vars

(***************************************************************************)
(* Actions on an SLHA object through its accessors                         *)
(***************************************************************************)
Spellings == {"mass", "Mass", "MASS", "alpha", "ALPHA"}
Keys      == {<<1>>, <<2>>}
Values    == {10, 20}
Pids      == {6}

\* the blocks handed to slha[name] = block
BlockValues == {Block_new("MASS"), Block_setitem(Block_new("ALPHA"), <<1>>, 10),
                Block_setitem(Block_setitem(Block_new("ALPHA"), <<>>, 10), <<2, 2>>, 20)}

\* slha[name] = block
SetBlock ==
    /\ \E name \in Spellings, b \in BlockValues :
          doc' = Spelled(SLHA_setitem_block(doc, name, b), name)
    /\ UNCHANGED <<parserVars, dumpVars, objVars>>

\* slha[name, key] = value
SetValue ==
    /\ \E name \in Spellings, key \in Keys, value \in Values :
          doc' = Spelled(SLHA_setitem_value(doc, name, key, value), name)
    /\ UNCHANGED <<parserVars, dumpVars, objVars>>

\* del slha[name, key]; a KeyError leaves the object as it is
DelValue ==
    /\ \E name \in Spellings, key \in Keys :
          /\ ~SLHA_delitem_value_raises(doc, name, key)
          /\ doc' = Spelled(SLHA_delitem_value(doc, name, key), name)
    /\ UNCHANGED <<parserVars, dumpVars, objVars>>

\* del slha[name]; a KeyError leaves the object as it is
DelBlock ==
    /\ \E name \in Spellings :
          /\ SLHA_getitem(doc, name) # 0
          /\ doc' = SLHA_delitem_block(doc, name)
    /\ UNCHANGED <<parserVars, dumpVars, objVars>>

\* slha[pid] = decay
SetDecay ==
    /\ \E pid \in Pids :
          doc' = SLHA_setitem_decay(doc, pid, Decay_new(0, Zero))
    /\ UNCHANGED <<parserVars, dumpVars, objVars>>

NextSLHA == SetBlock \/ SetValue \/ DelValue \/ DelBlock \/ SetDecay

SpecSLHA == Init /\ [][NextSLHA]_vars

(***************************************************************************)
(* Reading the consumed input back: the state after i lines, which lines   *)
(* were heads, accepted data lines, soft failures                          *)
(***************************************************************************)
StateAt(i) == ParseLines(InitialParserState, SubSeq(input, 1, i))

IsComment(obj) == obj.k = "comment"
IsHead(obj)    == obj.k \in {"block", "decayhead"}
IsData(obj)    == obj.k \in {"info", "value", "decay"}

\* line i was a data line folded into the open entity
Accepted(i) == IsData(input[i]) /\ StateAt(i).warned = ""

\* line i was a data line of the wrong kind for the open entity
Mismatched(i) == IsData(input[i]) /\ StateAt(i).warned = "InvalidFormat"

\* line i was unrecognized, or a data line met with no entity open
SoftFailure(i) == StateAt(i).warned \in {"UnrecognizedLine", "OrphanLine"}

CommentsOf(text) == SelectSeq(text, IsComment)

\* a line has just been processed
Stepped == ~done /\ Len(input) > 0
Last    == input[Len(input)]
Prev    == StateAt(Len(input) - 1)

OpenEntity == Deref(slha, processing)

\* the last head line of the input, 0 if none
LastHead ==
    IF \E i \in 1..Len(input) : IsHead(input[i])
    THEN CHOOSE i \in 1..Len(input) : IsHead(input[i]) /\ \A j \in (i + 1)..Len(input) : ~IsHead(input[j])
    ELSE 0

\* the accepted data lines of the open entity
AcceptedSince(h) == {i \in (h + 1)..Len(input) : Accepted(i)}

Min(S) == CHOOSE x \in S : \A y \in S : x <= y
Max(S) == CHOOSE x \in S : \A y \in S : x >= y

(***************************************************************************)
(* C4  Pre-head comments: after a block head or decay head line the        *)
(* entity's Prefix comment is the comment buffer as it was before the      *)
(* line, in order, and the buffer is empty.                                *)
(***************************************************************************)
C4_PreHead ==
    (Stepped /\ IsHead(Last)) =>
        /\ line_comment(OpenEntity, PosPrefix) = Prev.comment
        /\ comment = <<>>

C4_Witness ==
    /\ Stepped /\ IsHead(Last)
    /\ Len(Prev.comment) = 2
    /\ Prev.processing.k # "none"

(***************************************************************************)
(* C5  Comments between two data lines of one entity become the            *)
(* pre-comment of the following data line, recorded under its key, and     *)
(* change no other comment slot of the entity.                             *)
(***************************************************************************)
\* the last line is an accepted data line, preceded by a run of comment
\* lines, preceded by an accepted data line of the same entity
BetweenDataLines(j) ==
    /\ Stepped /\ Len(input) >= 3
    /\ Accepted(Len(input))
    /\ j \in 1..(Len(input) - 2)
    /\ Accepted(j)
    /\ \A i \in (j + 1)..(Len(input) - 1) : IsComment(input[i])

C5_PreLine ==
    \A j \in 1..Len(input) :
        BetweenDataLines(j) =>
            /\ line_comment(OpenEntity, PosKey(Last.key)) = SubSeq(input, j + 1, Len(input) - 1)
            /\ \A pos \in {PosPrefix, PosHeading, PosSuffix} :
                   line_comment(OpenEntity, pos) = line_comment(Deref(Prev.slha, Prev.processing), pos)

(***************************************************************************)
(* C6  The heading comment of the open entity is the run of comment lines  *)
(* between its head line and its first data line; comment lines met later  *)
(* in the entity do not change it.                                         *)
(***************************************************************************)
HeadingRun ==
    LET acc == AcceptedSince(LastHead)
    IN  IF acc = {} THEN <<>>
        ELSE CommentsOf(SubSeq(input, LastHead + 1, Min(acc) - 1))

C6_Heading ==
    (Stepped /\ processing.k # "none") =>
        line_comment(OpenEntity, PosHeading) = HeadingRun

(***************************************************************************)
(* C7  The tail comment after parse is the run of comment lines not        *)
(* followed by any head line or accepted data line; it is empty when the   *)
(* input ends with a head line or an accepted data line.                   *)
(***************************************************************************)
TailRun ==
    LET closing == {i \in 1..Len(input) : IsHead(input[i]) \/ Accepted(i)}
    IN  IF closing = {} THEN CommentsOf(input)
        ELSE CommentsOf(SubSeq(input, Max(closing) + 1, Len(input)))

C7_Tail == done => slha.tail_comment = TailRun

(***************************************************************************)
(* C8  A data line of the wrong kind for the open entity is reported and   *)
(* discarded: the model, the open entity and the buffered comments are     *)
(* the same as before the line.                                            *)
(***************************************************************************)
C8_MismatchUnchanged ==
    (Stepped /\ warned = "InvalidFormat") =>
        /\ slha = Prev.slha
        /\ processing = Prev.processing
        /\ comment = Prev.comment

(***************************************************************************)
(* C9  An unrecognized line, and a data line met while no entity is open,  *)
(* leave the model, the open entity and the buffered comments unchanged,   *)
(* and the parse goes on as if the line had been absent: the state equals  *)
(* the state reached on the input without its soft failures.               *)
(***************************************************************************)
WithoutSoftFailures ==
    LET RECURSIVE keep(_)
        keep(i) == IF i = 0 THEN <<>>
                   ELSE IF SoftFailure(i) THEN keep(i - 1)
                   ELSE Append(keep(i - 1), input[i])
    IN  keep(Len(input))

C9_SoftFailure ==
    /\ (Stepped /\ warned \in {"UnrecognizedLine", "OrphanLine"}) =>
           /\ slha = Prev.slha
           /\ processing = Prev.processing
           /\ comment = Prev.comment
    /\ ~done =>
           LET st == ParseLines(InitialParserState, WithoutSoftFailures)
           IN  /\ slha = st.slha
               /\ processing = st.processing
               /\ comment = st.comment
    /\ done => slha = parse(WithoutSoftFailures)

C9_Witness ==
    /\ Stepped
    /\ \E i \in 1..Len(input) : StateAt(i).warned = "OrphanLine" /\ StateAt(i).comment # <<>>
    /\ \E i \in 1..Len(input) : StateAt(i).warned = "UnrecognizedLine" /\ StateAt(i).comment # <<>>
    /\ IsHead(Last)

(***************************************************************************)
(* Comparing models                                                        *)
(***************************************************************************)
Dumped == opts # NoDump

\* the comment positions in use in an entity
Positions(e) == {e.comment_lines[i].key : i \in 1..Len(e.comment_lines)}

\* What a model holds, whatever the order of its blocks, decays and keys,
\* the order of the daughters in a channel and the digits beyond the printed
\* ones: a line per entity (key <<>>) and a line per data line.  The comments
\* are shown if wc: the Prefix and Heading comments with the entity, the
\* inline comment and the pre-comment with the data line.
EntityView(e, wc) ==
    LET id == [k |-> e.k, name |-> Upper(e.name), pid |-> e.pid]
        number(l) == IF e.k = "decay" THEN E_FLOAT(br(e, l.key)) ELSE E_FLOAT(l.value)
    IN  { [id |-> id, key |-> <<>>, value |-> E_FLOAT(e.width), vals |-> <<>>,
           cmt  |-> IF wc THEN <<e.head_comment>> ELSE <<>>,
           pre  |-> IF wc THEN line_comment(e, PosPrefix) ELSE <<>>,
           post |-> IF wc THEN line_comment(e, PosHeading) ELSE <<>>] }
        \cup
        { [id |-> id, key |-> ch_sorted(e.data[i].key), value |-> number(e.data[i]), vals |-> e.data[i].vals,
           cmt  |-> IF wc THEN <<e.data[i].cmt>> \o e.data[i].cmts ELSE <<>>,
           pre  |-> IF wc THEN line_comment(e, PosKey(e.data[i].key)) ELSE <<>>,
           post |-> <<>>] : i \in 1..Len(e.data) }

ModelView(s, wc) ==
    [lines |-> UNION ({EntityView(s.blocks[i].obj, wc) : i \in 1..Len(s.blocks)}
                      \cup {EntityView(s.decays[i].obj, wc) : i \in 1..Len(s.decays)}),
     tail_comment |-> IF wc THEN s.tail_comment ELSE <<>>]

\* an entity holds the same keys in the same order, the same values and
\* width and the same comments as another
SameContent(e, f) ==
    /\ e.data = f.data
    /\ e.width = f.width
    /\ e.head_comment = f.head_comment
    /\ \A pos \in Positions(e) \cup Positions(f) : line_comment(e, pos) = line_comment(f, pos)

(***************************************************************************)
(* C1  Round trip: the text dumped from parse(T), parsed again, gives a    *)
(* model equal to parse(T): the same blocks and decays, keys and values,   *)
(* and under comments_preserve = ALL the same comments in every slot, the  *)
(* document's tail comment included.  Stated for the dumps that add no     *)
(* line of their own (no version line, no separator lines) and for texts   *)
(* that carry no version line.                                             *)
(***************************************************************************)
Stamped == \E i \in 1..Len(input) : is_version_line(input[i])

C1_RoundTrip ==
    (Dumped /\ ~opts.write_version /\ ~opts.separate_blocks /\ ~Stamped) => ModelView(parse(out), keep_line(opts)) = ModelView(parse(input), keep_line(opts))

(***************************************************************************)
(* C2  Dumping is a fixed point: converting the converted text again with  *)
(* the same options gives the same text, line for line.                    *)
(***************************************************************************)
C2_FixedPoint ==
    Dumped => convert(opts, out) = out

(***************************************************************************)
(* C3  Dumping is non-destructive: after dump returns, every block and     *)
(* decay of the model holds the same keys in the same order, the same      *)
(* values, width and comments as before the call.                          *)
(***************************************************************************)
C3_NonDestructive ==
    Dumped =>
        /\ DictKeys(slha.blocks) = DictKeys(before.blocks)
        /\ DictKeys(slha.decays) = DictKeys(before.decays)
        /\ \A i \in 1..Len(before.blocks) : SameContent(slha.blocks[i].obj, before.blocks[i].obj)
        /\ \A i \in 1..Len(before.decays) : SameContent(slha.decays[i].obj, before.decays[i].obj)
        /\ slha.tail_comment = before.tail_comment

(***************************************************************************)
(* C10  Block names are case-insensitive in the accessors of SLHA: two     *)
(* spellings of a name that differ only in letter case denote the same     *)
(* block or both raise KeyError, and no two blocks have the same           *)
(* case-folded name.                                                       *)
(***************************************************************************)
C10_CaseInsensitive ==
    /\ \A n1, n2 \in Spellings :
           Upper(n1) = Upper(n2) => SLHA_getitem(doc, n1) = SLHA_getitem(doc, n2)
    /\ \A i, j \in 1..Len(doc.blocks) :
           Upper(doc.blocks[i].key) = Upper(doc.blocks[j].key) => i = j

\* a block written under three spellings of its name, next to another block
C10_Witness ==
    /\ {<<"MASS", "mass">>, <<"MASS", "Mass">>, <<"MASS", "MASS">>} \subseteq doc.spelled
    /\ SLHA_getitem(doc, "mass") # 0
    /\ Len(doc.blocks[SLHA_getitem(doc, "mass")].obj.data) = 2
    /\ Len(doc.blocks) = 2

(***************************************************************************)
(* Actions on a normalized ordered map                                     *)
(***************************************************************************)
MapKeys(cls) == IF cls = "ci" THEN {"mass", "MASS", "alpha"}
                ELSE {<<1, 2>>, <<2, 1>>, <<2, 2>>}

MapPairs(cls) == UNION {[1..n -> [key : MapKeys(cls), obj : Values]] : n \in 0..MaxPairs}

Call(op, args, raised) == [op |-> op, args |-> args, raised |-> raised]

notMaps == <<parserVars, dumpVars, doc, decayVars, info, mem, reg, mg, mass, srt, warn, made>>

\* cls(pairs) or cls(**keywords)
MapNew ==
    /\ \E cls \in MapClasses : \E pairs \in MapPairs(cls) :
          /\ omap' = OND_init(cls, pairs)
          /\ lastop' = Call("init", <<pairs>>, "")
    /\ UNCHANGED notMaps

\* d[key] = value
MapSet ==
    /\ \E key \in MapKeys(omap.cls), value \in Values :
          /\ omap' = [omap EXCEPT !.d = OND_setitem(omap.cls, @, key, value)]
          /\ lastop' = Call("set", <<key, value>>, "")
    /\ UNCHANGED notMaps

\* d.update(pairs)
MapUpdate ==
    /\ \E pairs \in MapPairs(omap.cls) :
          /\ omap' = [omap EXCEPT !.d = OND_update(omap.cls, @, pairs)]
          /\ lastop' = Call("update", <<pairs>>, "")
    /\ UNCHANGED notMaps

\* del d[key]
MapDel ==
    /\ \E key \in MapKeys(omap.cls) :
          IF OND_missing(omap.cls, omap.d, key)
          THEN /\ lastop' = Call("del", <<key>>, "KeyError")
               /\ UNCHANGED omap
          ELSE /\ omap' = [omap EXCEPT !.d = OND_delitem(omap.cls, @, key)]
               /\ lastop' = Call("del", <<key>>, "")
    /\ UNCHANGED notMaps

\* d.pop(key) and d.pop(key, default)
MapPop ==
    /\ \E key \in MapKeys(omap.cls), with_default \in BOOLEAN :
          /\ omap' = [omap EXCEPT !.d = OND_pop(omap.cls, @, key)]
          /\ lastop' = Call("pop", <<key, with_default>>,
                            IF OND_missing(omap.cls, omap.d, key) /\ ~with_default
                            THEN "KeyError" ELSE "")
    /\ UNCHANGED notMaps

\* d.move_to_end(key, last)
MapMoveToEnd ==
    /\ \E key \in MapKeys(omap.cls), last \in BOOLEAN :
          IF OND_missing(omap.cls, omap.d, key)
          THEN /\ lastop' = Call("move_to_end", <<key, last>>, "KeyError")
               /\ UNCHANGED omap
          ELSE /\ omap' = [omap EXCEPT !.d = OND_move_to_end(omap.cls, @, key, last)]
               /\ lastop' = Call("move_to_end", <<key, last>>, "")
    /\ UNCHANGED notMaps

NextMaps == MapNew \/ MapSet \/ MapUpdate \/ MapDel \/ MapPop \/ MapMoveToEnd

SpecMaps == Init /\ [][NextMaps]_vars

(***************************************************************************)
(* C11  In both normalized ordered maps every stored key is in normalized  *)
(* form and no two stored keys are equal after normalization; setting a    *)
(* key that is present under an equivalent spelling changes only its       *)
(* value: the keys, their order and the other values stay as they were.    *)
(***************************************************************************)
\* the key is in the form its class stores: upper case, or ascending
InNormalForm(cls, key) ==
    IF cls = "ci" THEN key = Upper(key)
    ELSE \A i, j \in 1..Len(key) : i < j => key[i] <= key[j]

\* two spellings of one key: the same letters, or the same elements
SameKey(cls, a, b) ==
    IF cls = "ci" THEN Upper(a) = Upper(b)
    ELSE /\ Len(a) = Len(b)
         /\ \A x \in {a[i] : i \in 1..Len(a)} :
                Cardinality({i \in 1..Len(a) : a[i] = x}) = Cardinality({i \in 1..Len(b) : b[i] = x})

MapKeysNormalized(m) ==
    /\ \A i \in 1..Len(m.d) : InNormalForm(m.cls, m.d[i].key)
    /\ \A i, j \in 1..Len(m.d) : SameKey(m.cls, m.d[i].key, m.d[j].key) => i = j

SetInPlace ==
    (lastop'.op = "set" /\ \E i \in 1..Len(omap.d) : SameKey(omap.cls, omap.d[i].key, lastop'.args[1]))
    => /\ DictKeys(omap'.d) = DictKeys(omap.d)
       /\ \A i \in 1..Len(omap.d) :
              omap'.d[i].obj = IF SameKey(omap.cls, omap.d[i].key, lastop'.args[1])
                               THEN lastop'.args[2] ELSE omap.d[i].obj

C11_NormalizedMaps == [](MapKeysNormalized(omap)) /\ [][SetInPlace]_vars

\* a key set under its second spelling while it stands first of two entries
C11_Witness ==
    /\ omap.cls = "to"
    /\ lastop.op = "set"
    /\ lastop.args[1] = <<2, 1>>
    /\ DictKeys(omap.d) = <<<<1, 2>>, <<2, 2>>>>
    /\ omap.d[1].obj = lastop.args[2]

(***************************************************************************)
(* Actions on a Decay.  Its lines are set first; then at most MaxCalls     *)
(* calls of normalize, set_partial_width and remove are made.              *)
(***************************************************************************)
Channels == {<<1, 2>>, <<2, 1>>, <<3, 3>>}

\* 0, 1/2, 1, 1/2 + 0.9e-6, 1/2 + 1e-6 and 1/2 + 2e-6
BRs == {Zero, Rat(1, 2), One, Rat(5000009, 10000000), Rat(500001, 1000000), Rat(250001, 500000), Rat(1999999, 2000000)}

Widths == {Zero, Rat(2, 1)}

PartialWidths == {Zero, One}

notDecay == <<parserVars, dumpVars, doc, mapVars, info, mem, reg, mg, mass, srt, made>>

\* Decay(DecayHeadLine(pid=6, width=width))
DecayNew ==
    /\ \E width \in Widths :
          /\ dec' = Decay_new(6, width)
          /\ was' = Decay_new(6, width)
    /\ lastop' = Call("Decay", <<>>, "")
    /\ calls' = 0
    /\ warn' = NoWarning
    /\ UNCHANGED notDecay

\* decay.update_line(DecayLine(br=value, channel=channel))
DecayUpdateLine ==
    /\ calls = 0
    /\ \E channel \in Channels, value \in BRs :
          /\ dec' = Decay_update_line(dec, Decay_line(value, channel))
          /\ was' = Decay_update_line(dec, Decay_line(value, channel))
    /\ lastop' = Call("update_line", <<>>, "")
    /\ UNCHANGED <<calls, warn>>
    /\ UNCHANGED notDecay

\* decay.normalize(force)
DecayNormalize ==
    /\ calls < MaxCalls
    /\ \E force \in BOOLEAN : \E r \in {Decay_normalize(dec, force)} :
          /\ dec' = r.decay
          /\ lastop' = Call("normalize", <<force>>, r.raised)
          /\ warn' = Decay_normalize_log(warn, dec, force)
    /\ was' = dec
    /\ calls' = calls + 1
    /\ UNCHANGED notDecay

\* decay.set_partial_width(*channel, w)
DecaySetPartialWidth ==
    /\ calls < MaxCalls
    /\ \E channel \in Channels, w \in PartialWidths :
          \E r \in {Decay_set_partial_width(dec, channel, w)} :
              /\ dec' = r.decay
              /\ lastop' = Call("set_partial_width", <<channel, w>>, r.raised)
              /\ warn' = IF Len(channel) < 2 THEN warn ELSE Decay_normalize_log(warn, dec, FALSE)
    /\ was' = dec
    /\ calls' = calls + 1
    /\ UNCHANGED notDecay

\* decay.remove(*channel)
DecayRemove ==
    /\ calls < MaxCalls
    /\ \E channel \in Channels : \E r \in {Decay_remove(dec, channel)} :
          /\ dec' = r.decay
          /\ lastop' = Call("remove", <<channel>>, r.raised)
          /\ warn' = IF Len(channel) < 2 THEN warn ELSE Decay_normalize_log(warn, dec, FALSE)
    /\ was' = dec
    /\ calls' = calls + 1
    /\ UNCHANGED notDecay

NextDecay == DecayNew \/ DecayUpdateLine \/ DecayNormalize \/ DecaySetPartialWidth \/ DecayRemove

SpecDecay == Init /\ [][NextDecay]_vars

\* the channels of a decay with their BRs, whatever the lines' own spelling
DecayView(dc) == [width |-> dc.width,
                  data |-> [i \in 1..Len(dc.data) |-> <<dc.data[i].key, dc.data[i].obj.br>>]]

\* the other orders of the daughters of c
Permuted(c) == {p \in Channels : p # c /\ SameKey("to", p, c)}

(***************************************************************************)
(* C12  Decay channels do not depend on the order of the daughters: for a  *)
(* channel c and a permutation p of it, br and partial_width agree, and    *)
(* update_line, set_partial_width and remove called with p leave the same  *)
(* channels with the same BRs as with c; a decay never holds two entries   *)
(* that are permutations of each other.                                    *)
(***************************************************************************)
C12_OrderInsensitive ==
    /\ \A i, j \in 1..Len(dec.data) :
           SameKey("to", dec.data[i].obj.key, dec.data[j].obj.key) => i = j
    /\ \A c \in {<<1, 2>>} : \A p \in Permuted(c) :
           /\ Decay_br(dec, p) = Decay_br(dec, c)
           /\ Decay_partial_width(dec, p) = Decay_partial_width(dec, c)
           /\ \A v \in BRs : DecayView(Decay_update_line(dec, Decay_line(v, p)))
                               = DecayView(Decay_update_line(dec, Decay_line(v, c)))
           /\ \A w \in PartialWidths :
                  LET rp == Decay_set_partial_width(dec, p, w)
                      rc == Decay_set_partial_width(dec, c, w)
                  IN  rp.raised = rc.raised /\ DecayView(rp.decay) = DecayView(rc.decay)
           /\ LET rp == Decay_remove(dec, p)
                  rc == Decay_remove(dec, c)
              IN  rp.raised = rc.raised /\ DecayView(rp.decay) = DecayView(rc.decay)

\* a channel written as (1, 2) has been given a partial width as (2, 1)
C12_Witness ==
    /\ lastop.op = "set_partial_width"
    /\ lastop.raised = ""
    /\ lastop.args[1] = <<2, 1>>
    /\ \E i \in 1..Len(was.data) : was.data[i].obj.key = <<1, 2>> /\ was.data[i].obj.br # Zero
    /\ Len(dec.data) = 2
    /\ Decay_br(dec, <<1, 2>>) # Zero

(***************************************************************************)
(* C13  Partial-width bookkeeping: on a decay whose BR total does not      *)
(* exceed 1 + threshold, set_partial_width(ch, w) returns and afterwards   *)
(* partial_width(ch) is w, the total width is the old width minus the old  *)
(* partial width of ch plus w, and every other channel has the partial     *)
(* width it had before the call.                                           *)
(***************************************************************************)
C13_PartialWidth ==
    (lastop.op = "set_partial_width" /\ ~exceeds_threshold(Decay_total(was))) =>
        /\ lastop.raised = ""
        /\ Decay_partial_width(dec, lastop.args[1]) = lastop.args[2]
        /\ dec.width = RAdd(RSub(was.width, Decay_partial_width(was, lastop.args[1])), lastop.args[2])
        /\ \A c \in Channels :
               ~SameKey("to", c, lastop.args[1])
               => Decay_partial_width(dec, c) = Decay_partial_width(was, c)

(***************************************************************************)
(* C14  remove(channel) of a channel that is present returns; afterwards   *)
(* the channel is absent and its br is 0, the total width is smaller by    *)
(* the partial width the channel had, and every remaining channel has the  *)
(* partial width it had before the call.                                   *)
(***************************************************************************)
C14_Remove ==
    (lastop.op = "remove" /\ ~OND_missing("to", was.data, lastop.args[1])) =>
        /\ lastop.raised = ""
        /\ \A i \in 1..Len(dec.data) : ~SameKey("to", dec.data[i].key, lastop.args[1])
        /\ Decay_br(dec, lastop.args[1]) = Zero
        /\ dec.width = RSub(was.width, Decay_partial_width(was, lastop.args[1]))
        /\ \A c \in Channels :
               ~SameKey("to", c, lastop.args[1])
               => Decay_partial_width(dec, c) = Decay_partial_width(was, c)

(***************************************************************************)
(* C15  normalize(force=False) by the range of the BR total: above         *)
(* 1 + 1e-6 it raises and leaves every BR unchanged; from 1 to 1 + 1e-6    *)
(* inclusive it returns and the total is 1; below 1 it returns and leaves  *)
(* every BR unchanged.  Whenever it returns, the BR total is at most 1.    *)
(***************************************************************************)
C15_NormalizeRanges ==
    (lastop.op = "normalize" /\ lastop.args[1] = FALSE) =>
        LET total == Decay_total(was)
            limit == Rat(1000001, 1000000)
        IN  /\ RLess(limit, total) => (lastop.raised = "ValueError" /\ dec = was)
            /\ (~RLess(total, One) /\ ~RLess(limit, total))
                   => (lastop.raised = "" /\ Decay_total(dec) = One /\ dec.width = was.width)
            /\ RLess(total, One) => (lastop.raised = "" /\ dec = was)
            /\ lastop.raised = "" => ~RLess(One, Decay_total(dec))

\* a total of 1 + 0.9e-6 has been normalized without an error
C15_Witness ==
    /\ lastop.op = "normalize"
    /\ lastop.args[1] = FALSE
    /\ lastop.raised = ""
    /\ Decay_total(was) = Rat(10000009, 10000000)
    /\ Decay_total(dec) = One
    /\ Len(dec.data) = 2

InfoKeys == {1, 2}

InfoValues == {"v", "w", "w "}

InfoLists == UNION {[1..n -> InfoValues] : n \in 0..2}

notInfo == <<parserVars, dumpVars, doc, mapVars, dec, calls, mem, reg, mg, mass, srt, warn, made>>

\* block.append(key, value)
InfoAppend ==
    /\ Len(info) < MaxInfoLines
    /\ \E key \in InfoKeys, value \in InfoValues :
          /\ info' = Info_append(info, key, value)
          /\ lastop' = Call("append", <<key, value>>, "")
    /\ was' = info
    /\ UNCHANGED notInfo

\* block[key] = [v1, ..., vn]
InfoSet ==
    /\ \E key \in InfoKeys, value \in InfoLists :
          /\ Len(Info_setitem(info, key, value)) <= MaxInfoLines
          /\ info' = Info_setitem(info, key, value)
          /\ lastop' = Call("setitem", <<key, value>>, "")
    /\ was' = info
    /\ UNCHANGED notInfo

\* block[key] = "a string": the fail-safe raises TypeError
InfoSetStr ==
    /\ \E key \in InfoKeys, value \in InfoValues :
          lastop' = Call("setitem_str", <<key, value>>, "TypeError")
    /\ was' = info
    /\ UNCHANGED info
    /\ UNCHANGED notInfo

\* block[key] = 1.0
InfoSetNumber ==
    /\ \E key \in InfoKeys :
          \E r \in {Info_setitem_number(info, key)} :
              /\ info' = r.data
              /\ lastop' = Call("setitem_number", <<key>>, r.raised)
    /\ was' = info
    /\ UNCHANGED notInfo

\* del block[key]
InfoDel ==
    /\ \E key \in InfoKeys :
          /\ info' = Info_delitem(info, key)
          /\ lastop' = Call("delitem", <<key>>, "")
    /\ was' = info
    /\ UNCHANGED notInfo

NextInfo == InfoAppend \/ InfoSet \/ InfoSetStr \/ InfoSetNumber \/ InfoDel

SpecInfo == Init /\ [][NextInfo]_vars

\* the call of the last step left the sequences of the other keys alone
OtherInfoKeysKept ==
    \A k \in InfoKeys : k # lastop.args[1] => Info_getitem(info, k) = Info_getitem(was, k)

(***************************************************************************)
(* C17 as stated  InfoBlock holds several values per key: append(k, v)     *)
(* makes block[k] its previous sequence followed by v, block[k] = [v1..vn] *)
(* makes block[k] exactly (v1..vn), both leave every other key's sequence  *)
(* unchanged, and a bare string is never stored as a value sequence.       *)
(***************************************************************************)
C17_AsStated ==
    /\ lastop.op = "append" =>
           /\ Info_getitem(info, lastop.args[1]) = Append(Info_getitem(was, lastop.args[1]), lastop.args[2])
           /\ OtherInfoKeysKept
    /\ lastop.op = "setitem" =>
           /\ Info_getitem(info, lastop.args[1]) = lastop.args[2]
           /\ OtherInfoKeysKept
    /\ lastop.op = "setitem_str" => info = was

(***************************************************************************)
(* C17  InfoBlock holds several values per key: append(k, v) makes         *)
(* block[k] its previous sequence followed by v without its trailing       *)
(* whitespace, block[k] = [v1..vn] makes block[k] exactly v1..vn, each     *)
(* without its trailing whitespace, both leave every other key's sequence  *)
(* unchanged, and a bare string is never stored as a value sequence.       *)
(***************************************************************************)
C17_InfoValues ==
    LET stripped(v) == IF v = "w " THEN "w" ELSE v
    IN  /\ lastop.op = "append" =>
               /\ Info_getitem(info, lastop.args[1])
                      = Append(Info_getitem(was, lastop.args[1]), stripped(lastop.args[2]))
               /\ OtherInfoKeysKept
        /\ lastop.op = "setitem" =>
               /\ Info_getitem(info, lastop.args[1])
                      = [i \in 1..Len(lastop.args[2]) |-> stripped(lastop.args[2][i])]
               /\ OtherInfoKeysKept
        /\ lastop.op = "setitem_str" => info = was

\* a third value appended to a key that stands on two lines around another key
C17_Witness ==
    /\ lastop.op = "append"
    /\ lastop.args = <<1, "w ">>
    /\ DictKeys(was) = <<1, 2, 1>>
    /\ Info_getitem(info, 1) = <<"v", "w", "w">>

(***************************************************************************)
(* C18  get is the total counterpart of strict indexing: Block.get with a  *)
(* no-index, one-index or multi-index key, and SLHA.get with a block       *)
(* name, a decay PID or a (name, key) path, return the strictly indexed    *)
(* value whenever strict indexing succeeds, and the default exactly when   *)
(* strict indexing raises KeyError.                                        *)
(***************************************************************************)
GetKeys == {<<>>, <<1>>, <<2>>, <<2, 2>>}

GetAgrees(g, strict) == (g.is_default = strict.raised) /\ (~strict.raised => g.value = strict.value)

C18_GetTotal ==
    /\ \A i \in 1..Len(doc.blocks) : \A key \in GetKeys :
           GetAgrees(Block_get(doc.blocks[i].obj, key, "d"), Block_getitem(doc.blocks[i].obj, key))
    /\ \A name \in Spellings :
           /\ GetAgrees(SLHA_get(doc, TRUE, name, <<>>, "d"), SLHA_getitem_str(doc, name))
           /\ \A key \in GetKeys :
                  GetAgrees(SLHA_get(doc, TRUE, name, <<key>>, "d"),
                            SLHA_getitem_tuple(doc, TRUE, name, <<key>>))
    /\ \A pid \in Pids :
           GetAgrees(SLHA_get(doc, FALSE, pid, <<>>, "d"), SLHA_getitem_int(doc, pid))

(***************************************************************************)
(* Actions on an SLHA object and its copy                                  *)
(***************************************************************************)
notCopy == <<parserVars, dumpVars, doc, mapVars, decayVars, info, lastop, reg, mg, mass, srt, warn, made>>

Names == {"slha", "c"}

\* c = copy.copy(slha) or c = copy.deepcopy(slha)
MakeCopy ==
    /\ mem.kind = ""
    /\ \E deep \in BOOLEAN :
          mem' = [(IF deep THEN copy_deepcopy(mem) ELSE copy_copy(mem))
                      EXCEPT !.last = [h |-> "", other |-> EmptyDoc]]
    /\ UNCHANGED notCopy

\* the edit through h gave s; the object of the other name is remembered
\* as it was before the edit
Edited(h, s) ==
    /\ mem.edits < MaxEdits
    /\ mem.obj[h].blocks # 0
    /\ mem' = [EditThrough(mem, h, s)
                  EXCEPT !.last = [h |-> h,
                                   other |-> IF mem.kind = "" THEN EmptyDoc
                                             ELSE SLHA_of(mem, IF h = "c" THEN "slha" ELSE "c")]]
    /\ UNCHANGED notCopy

\* h["mass", 1] = v
EditValue ==
    \E h \in Names, v \in Values : Edited(h, SLHA_setitem_value(SLHA_of(mem, h), "mass", <<1>>, v))

\* h["SPINFO", 1] = ["v"]
EditInfo ==
    \E h \in Names : Edited(h, SLHA_setitem_info(SLHA_of(mem, h), "SPINFO", 1, <<"v">>))

\* h["spinfo"].append(1, "w")
EditAppend ==
    \E h \in Names : Edited(h, SLHA_info_append(SLHA_of(mem, h), "spinfo", 1, "w"))

\* h[6] = Decay(6, width=1)
EditDecay ==
    \E h \in Names : Edited(h, SLHA_setitem_decay(SLHA_of(mem, h), 6, Decay_new(6, One)))

\* h[6].set_partial_width(1, 2, w)
EditWidth ==
    \E h \in Names, w \in {One, Rat(2, 1)} :
        Edited(h, SLHA_set_partial_width(SLHA_of(mem, h), 6, <<1, 2>>, w))

NextCopy == MakeCopy \/ EditValue \/ EditInfo \/ EditAppend \/ EditDecay \/ EditWidth

SpecCopy == Init /\ [][NextCopy]_vars

(***************************************************************************)
(* C19  Copy semantics: after c = deepcopy(slha) an edit made through c    *)
(* leaves every value, info sequence, BR and width of slha unchanged, and  *)
(* an edit made through slha leaves those of c unchanged; after            *)
(* c = copy(slha) every edit made through one of them is seen through the  *)
(* other.                                                                  *)
(***************************************************************************)
C19_CopySemantics ==
    /\ (mem.kind = "deepcopy" /\ mem.last.h # "") =>
           SLHA_of(mem, IF mem.last.h = "c" THEN "slha" ELSE "c") = mem.last.other
    /\ mem.kind = "copy" => SLHA_of(mem, "c") = SLHA_of(mem, "slha")

\* a deep copy of a block, an info block and a decay has been edited
C19_Witness ==
    /\ mem.kind = "deepcopy"
    /\ mem.last.h = "c"
    /\ Len(SLHA_of(mem, "slha").blocks) = 2
    /\ Len(SLHA_of(mem, "slha").decays) = 1
    /\ SLHA_of(mem, "c") # SLHA_of(mem, "slha")

(***************************************************************************)
(* C20  Version stamping replaces, never duplicates: a dump with           *)
(* write_version, of a model parsed from any text (a text written by       *)
(* earlier dumps included), has exactly one line that starts with          *)
(* '# written by yaslha', and it is the first line; so has every dump with *)
(* write_version, with or without comments and separators, of the model    *)
(* parsed back from that output.                                           *)
(***************************************************************************)
StampLines(text) == {i \in 1..Len(text) : text[i].k = "comment" /\ text[i].text \in WrittenBy}

StampedOnce(text) == StampLines(text) = {1}

\* the options of the next dump: the orders of the first one, any treatment
\* of comments and separators, and the stamp
Redumps(o) ==
    {[o EXCEPT !.comments_preserve = c, !.separate_blocks = b] :
        c \in CommentsPreserve, b \in BOOLEAN}

C20_StampedOnce ==
    (Dumped /\ opts.write_version) =>
        /\ StampedOnce(out)
        /\ \A o \in Redumps(opts) : StampedOnce(dump(o, parse(out)).text)

\* a text that carries the stamps of two earlier dumps among the comments
\* of a block has been dumped with the comments kept
C20_Witness ==
    /\ Dumped
    /\ opts.write_version
    /\ keep_line(opts)
    /\ Len(input) = 3
    /\ input[1].k = "comment" /\ input[1].text = OlderVersionString
    /\ input[2].k = "comment" /\ input[2].text = VersionString
    /\ input[3].k = "block"
    /\ Len(out) = 2

(***************************************************************************)
(* C21  Comment-preservation gating: the comment lines of the model        *)
(* (before a head, after a head, before a data line, document tail) are    *)
(* written if and only if comments_preserve is ALL; the inline comments of *)
(* head and data lines are written if and only if it is TAIL or ALL; the   *)
(* data lines and their values are the same under all three levels.        *)
(* Stated for the dumps that add no line of their own and for models that  *)
(* carry no stamp of an earlier dump.                                      *)
(***************************************************************************)
Range(seq) == {seq[i] : i \in 1..Len(seq)}

EntitiesOf(s) == {s.blocks[i].obj : i \in 1..Len(s.blocks)} \cup {s.decays[i].obj : i \in 1..Len(s.decays)}

\* the texts of the comment lines a model holds, in any slot
CommentTexts(s) ==
    {l.text : l \in Range(s.tail_comment)
                    \cup UNION {UNION {Range(e.comment_lines[i].lines) : i \in 1..Len(e.comment_lines)} :
                                   e \in EntitiesOf(s)}}

\* the inline comments a model holds, on heads and on data lines
InlineTexts(s) ==
    ({e.head_comment : e \in EntitiesOf(s)}
        \cup UNION {{l.cmt} \cup Range(l.cmts) : l \in UNION {Range(e.data) : e \in EntitiesOf(s)}})
    \ {""}

WrittenCommentTexts(text) == {l.text : l \in {m \in Range(text) : m.k = "comment"}}

WrittenInlineTexts(text) == UNION {{l.cmt} \cup Range(l.cmts) : l \in Range(text)} \ {""}

\* the head and data lines of a text without their inline comments
DataLines(text) ==
    LET is_data(l) == l.k # "comment"
        data == SelectSeq(text, is_data)
    IN  [i \in 1..Len(data) |-> [data[i] EXCEPT !.cmt = "", !.cmts = [j \in 1..Len(@) |-> ""]]]

C21_CommentGating ==
    (Dumped /\ ~opts.write_version /\ ~opts.separate_blocks /\ ~Stamped) =>
        /\ WrittenCommentTexts(out) = (IF keep_line(opts) THEN CommentTexts(before) ELSE {})
        /\ WrittenInlineTexts(out) = (IF keep_tail(opts) THEN InlineTexts(before) ELSE {})
        /\ \A c \in CommentsPreserve :
              DataLines(dump([opts EXCEPT !.comments_preserve = c], before).text) = DataLines(out)

(***************************************************************************)
(* Actions that register blocks and decays in an SLHA object               *)
(***************************************************************************)
notReg == <<parserVars, dumpVars, doc, mapVars, decayVars, info, lastop, mem, mg, mass, srt, warn, made>>

NoSet == [kind |-> "", obj |-> 0, name |-> "", pid |-> 0]

\* slha.add_block(obj)
RegAdd ==
    /\ \E kind \in {"block", "decay"}, obj \in 1..2 :
          reg' = [Reg_add_block(reg, kind, obj) EXCEPT !.normalized = FALSE, !.last = NoSet]
    /\ UNCHANGED notReg

\* slha[name] = block
RegSetBlock ==
    /\ \E key \in {"mass", "alpha", "ALPHA"}, obj \in 1..2 :
          reg' = [Reg_setitem_block(reg, key, obj)
                     EXCEPT !.normalized = FALSE,
                            !.last = [kind |-> "block", obj |-> obj, name |-> key, pid |-> 0]]
    /\ UNCHANGED notReg

\* slha[pid] = decay
RegSetDecay ==
    /\ \E key \in {6, 24}, obj \in 1..2 :
          reg' = [Reg_setitem_decay(reg, key, obj)
                     EXCEPT !.normalized = FALSE,
                            !.last = [kind |-> "decay", obj |-> obj, name |-> "", pid |-> key]]
    /\ UNCHANGED notReg

\* slha.normalize()
RegNormalize ==
    /\ reg' = [Reg_normalize(reg) EXCEPT !.normalized = TRUE, !.last = NoSet]
    /\ UNCHANGED notReg

NextReg == RegAdd \/ RegSetBlock \/ RegSetDecay \/ RegNormalize

SpecReg == Init /\ [][NextReg]_vars

(***************************************************************************)
(* C22  Name/PID housekeeping: slha[name] = block sets the block's name to *)
(* the upper-cased key and slha[pid] = decay sets the decay's pid to the   *)
(* key; after normalize() every registered block has the name of its key   *)
(* and every registered decay the pid of its key.                          *)
(***************************************************************************)
NamesMatchKeys(r) ==
    /\ \A i \in 1..Len(r.blocks) : r.name[r.blocks[i].obj] = r.blocks[i].key
    /\ \A i \in 1..Len(r.decays) : r.pid[r.decays[i].obj] = r.decays[i].key

C22_NamesMatchKeys ==
    /\ reg.last.kind = "block" => reg.name[reg.last.obj] = Upper(reg.last.name)
    /\ reg.last.kind = "decay" => reg.pid[reg.last.obj] = reg.last.pid
    /\ reg.normalized => NamesMatchKeys(reg)

(***************************************************************************)
(* Actions on two SLHA objects, one merged into the other                  *)
(***************************************************************************)
notMerge == <<parserVars, dumpVars, doc, mapVars, decayVars, info, lastop, mem, reg, mass, srt, warn, made>>

MergeView == [a |-> SLHA_view(mg, "a"), b |-> SLHA_view(mg, "b")]

\* the call made through h gave m
MergeEdited(h, m) ==
    /\ mg.edits < MaxMergeEdits
    /\ mg' = [m EXCEPT !.edits = @ + 1, !.last = h, !.was = MergeView]
    /\ UNCHANGED notMerge

\* h["MASS"] = Block(BlockHeadLine("MASS", q=91, comment="h"))
MgSetBlock ==
    \E h \in {"a", "b"} :
        /\ ~CIDict_contains(mg.slha[h].blocks, "MASS")
        /\ MergeEdited(h, Merge_setitem_block(mg, h, "MASS", 91, "h"))

\* h["mass", key] = value
MgSetValue ==
    \E h \in {"a", "b"}, key \in Keys, value \in Values :
        MergeEdited(h, Merge_setitem_value(mg, h, "mass", key, value))

\* h["mass"].comment[1] = "c"
MgSetComment ==
    \E h \in {"a", "b"} :
        /\ CIDict_contains(mg.slha[h].blocks, "mass")
        /\ MergeEdited(h, Merge_set_comment(mg, h, "mass", <<1>>, "c"))

\* h[6] = Decay(6) with width 1
MgSetDecay ==
    \E h \in {"a", "b"} :
        /\ mg.slha[h].decays = <<>>
        /\ MergeEdited(h, [mg EXCEPT !.slha[h].decays = <<[key |-> 6, obj |-> Decay_new(6, One)]>>])

\* h[6].set_partial_width(1, 2, 1) and h[6].normalize()
MgEditDecay ==
    \E h \in {"a", "b"}, normalize \in BOOLEAN :
        /\ mg.slha[h].decays # <<>>
        /\ MergeEdited(h, [mg EXCEPT !.slha[h].decays[1].obj =
                                 IF normalize THEN Decay_normalize(@, FALSE).decay
                                 ELSE Decay_set_partial_width(@, <<1, 2>>, One).decay])

\* a["mass"].merge(b["mass"])
MgBlockMerge ==
    /\ ~mg.merged
    /\ CIDict_contains(mg.slha["a"].blocks, "mass")
    /\ CIDict_contains(mg.slha["b"].blocks, "mass")
    /\ mg' = [mg EXCEPT !.slha["a"].blocks[1].obj = Block_merge(mg.heap, @, mg.slha["b"].blocks[1].obj),
                        !.last = "Block.merge", !.was = MergeView]
    /\ UNCHANGED notMerge

\* a.merge(b)
MgMerge ==
    /\ ~mg.merged
    /\ \E r \in {SLHA_merge(mg.heap, mg.slha["a"], mg.slha["b"])} :
          mg' = [mg EXCEPT !.heap = r.heap, !.slha["a"] = r.slha,
                           !.merged = TRUE, !.last = "SLHA.merge", !.was = MergeView]
    /\ UNCHANGED notMerge

NextMerge == MgSetBlock \/ MgSetValue \/ MgSetComment \/ MgSetDecay \/ MgEditDecay \/ MgBlockMerge \/ MgMerge

SpecMerge == Init /\ [][NextMerge]_vars

(***************************************************************************)
(* C23  Block.merge(other) on ordinary blocks: afterwards self's Q and     *)
(* head comment are those of other; self[key] = other[key] for every key   *)
(* of other; the keys self had keep their places, the keys new to self     *)
(* follow in other's order; the keys of self that other lacks keep their   *)
(* values.                                                                 *)
(***************************************************************************)
ValueOf(blk, key) == blk.data[IndexOf(blk.data, key)].value

MergedAsStated(self, other, after) ==
    LET is_new(key) == ~HasKey(self.data, key)
    IN  /\ after.q = other.q
        /\ after.head_comment = other.head_comment
        /\ \A i \in 1..Len(other.data) : ValueOf(after, other.data[i].key) = other.data[i].value
        /\ DictKeys(after.data) = DictKeys(self.data) \o SelectSeq(DictKeys(other.data), is_new)
        /\ \A i \in 1..Len(self.data) :
              ~HasKey(other.data, self.data[i].key) => ValueOf(after, self.data[i].key) = self.data[i].value

C23_BlockMerge ==
    mg.last = "Block.merge" =>
        MergedAsStated(mg.was.a.blocks[1].obj, mg.was.b.blocks[1].obj, SLHA_view(mg, "a").blocks[1].obj)

(***************************************************************************)
(* C26  After a.merge(b), a owns its data: an edit made through b (value   *)
(* assignment, comment assignment, set_partial_width, normalize) leaves    *)
(* every value, comment and BR of a unchanged, and an edit made through a  *)
(* leaves b unchanged, whether or not a held the block or decay before.    *)
(***************************************************************************)
C26_MergeOwnership ==
    mg.merged =>
        /\ mg.last = "b" => SLHA_view(mg, "a") = mg.was.a
        /\ mg.last = "a" => SLHA_view(mg, "b") = mg.was.b

(***************************************************************************)
(* Actions on a MASS block that is dumped with values_order = DEFAULT      *)
(***************************************************************************)
notMass == <<parserVars, dumpVars, doc, mapVars, decayVars, info, lastop, mem, reg, mg, srt, warn, made>>

\* one or two particle IDs of every group, and a two-index key
MassKeys ==
    {<<25>>, <<6>>, <<1000021>>, <<1000002>>, <<1000001>>, <<2000001>>, <<1000022>>, <<1000024>>,
     <<1000011>>, <<1000012>>, <<1000039>>, <<3000001>>, <<1, 2>>}

\* the Block whose _data holds the keys in the order of insertion
MassBlock(keys) ==
    [NewBlock("MASS", "") EXCEPT !.data = [i \in 1..Len(keys) |-> ValueLine(keys[i], 1000, "")]]

DefaultOrder == [NoDump EXCEPT !.values_order = "DEFAULT", !.blocks_order = "DEFAULT", !.comments_preserve = "NONE"]

\* block[key] = value for a new key
MassInsert ==
    /\ Len(mass.keys) < MaxPids
    /\ \E key \in MassKeys :
          /\ \A i \in 1..Len(mass.keys) : mass.keys[i] # key
          /\ mass' = [keys |-> Append(mass.keys, key), written |-> <<>>, dumped |-> FALSE]
    /\ UNCHANGED notMass

\* the data lines the dumper writes for the block
MassDump ==
    /\ ~mass.dumped
    /\ mass' = [mass EXCEPT !.written = DictKeys(block_lines_with_key_order(DefaultOrder, MassBlock(mass.keys)).lines),
                            !.dumped = TRUE]
    /\ UNCHANGED notMass

NextMass == MassInsert \/ MassDump

SpecMass == Init /\ [][NextMass]_vars

(***************************************************************************)
(* C24  Ordering determinism of the MASS block: with values_order =        *)
(* DEFAULT the written keys are a permutation of the block's keys, formed  *)
(* by the groups Standard-Model IDs, gluino, up-type squarks, down-type    *)
(* squarks, neutralinos, charginos, sleptons, sneutrinos, other SUSY,      *)
(* everything else, each group ascending; so the order depends on the set  *)
(* of keys only, not on the order of insertion.                            *)
(***************************************************************************)
\* the place of a key's group in the list of the statement; a key that is
\* not one particle ID comes behind all of them
GroupRank(key) ==
    CASE key \in {<<25>>, <<6>>}                 -> 1
      [] key = <<1000021>>                       -> 2
      [] key = <<1000002>>                       -> 3
      [] key \in {<<1000001>>, <<2000001>>}      -> 4
      [] key = <<1000022>>                       -> 5
      [] key = <<1000024>>                       -> 6
      [] key = <<1000011>>                       -> 7
      [] key = <<1000012>>                       -> 8
      [] key = <<1000039>>                       -> 9
      [] key = <<3000001>>                       -> 10
      [] OTHER                                   -> 11

Reversed(seq) == [i \in 1..Len(seq) |-> seq[Len(seq) + 1 - i]]

C24_MassOrder ==
    mass.dumped =>
        /\ Len(mass.written) = Len(mass.keys)
        /\ Range(mass.written) = Range(mass.keys)
        /\ \A i, j \in 1..Len(mass.written) :
              i < j => \/ GroupRank(mass.written[i]) < GroupRank(mass.written[j])
                       \/ /\ GroupRank(mass.written[i]) = GroupRank(mass.written[j])
                          /\ mass.written[i][1] < mass.written[j][1]
        /\ DictKeys(block_lines_with_key_order(DefaultOrder, MassBlock(Reversed(mass.keys))).lines) = mass.written

\* three keys inserted against their order have been written
C24_Witness ==
    /\ mass.dumped
    /\ mass.keys = <<<<1000022>>, <<2000001>>, <<1000001>>>>
    /\ mass.written = <<<<1000001>>, <<2000001>>, <<1000022>>>>

(***************************************************************************)
(* Actions on a Decay that is dumped with values_order = DEFAULT           *)
(***************************************************************************)
notSorted == <<parserVars, dumpVars, doc, mapVars, decayVars, info, lastop, mem, reg, mg, mass, warn, made>>

SortChannels == {<<2, 1>>, <<1, 2>>, <<3, 3>>, <<5, 1000022>>, <<-1, 2, 1>>}

SortBRs == {4000, 3799, 2000}

\* decay[channel] = DecayLine(br, channel, comment) for a new channel
SortAdd ==
    /\ ~srt.dumped
    /\ Len(srt.decay.data) < MaxChannels
    /\ \E ch \in SortChannels, b \in SortBRs, cmt \in {"", "t"} :
          /\ ~HasKey(srt.decay.data, ch)
          /\ srt' = [srt EXCEPT !.decay = DecaySetItem(@, ch, DecayLine(ch, b, cmt))]
    /\ UNCHANGED notSorted

\* the channel lines the dumper writes for the decay, or the KeyError of
\* rename_channel, which nothing on the way catches
SortDump ==
    /\ ~srt.dumped
    /\ srt' = IF copy_sorted_decay_block_raises(srt.decay, TRUE)
              THEN [srt EXCEPT !.raised = "KeyError", !.dumped = TRUE]
              ELSE [srt EXCEPT !.written = decay_lines_with_key_order(DefaultOrder, srt.decay).lines,
                               !.dumped = TRUE]
    /\ UNCHANGED notSorted

NextSorted == SortAdd \/ SortDump

SpecSorted == Init /\ [][NextSorted]_vars

(***************************************************************************)
(* C25  Decay display order with values_order = DEFAULT: for every decay   *)
(* the written channels are a permutation of the decay's channels, each    *)
(* with its BR and comment and with its daughters reordered only; a        *)
(* channel whose BR is below 95 % of another's is written behind it; and   *)
(* of two channels that the BR does not order, the one with fewer          *)
(* daughters, then with the earlier daughters in the canonical particle    *)
(* ordering, is written first.                                             *)
(***************************************************************************)
\* the daughters of one channel are those of the other, in some order
SameDaughters(c, d) ==
    /\ Len(c) = Len(d)
    /\ \A x \in Range(c) \cup Range(d) :
          Cardinality({i \in 1..Len(c) : c[i] = x}) = Cardinality({i \in 1..Len(d) : d[i] = x})

C25_DecayOrder ==
    srt.dumped =>
        LET channels == srt.decay.data
            w == srt.written
        IN  /\ Len(w) = Len(channels)
            /\ \A i \in 1..Len(channels) :
                  Cardinality({j \in 1..Len(w) :
                                   /\ SameDaughters(w[j].key, channels[i].key)
                                   /\ w[j].value = br(srt.decay, channels[i].key)
                                   /\ w[j].cmt = channels[i].cmt}) = 1
            /\ \A i, j \in 1..Len(w) :
                  100 * w[j].value < 95 * w[i].value => i < j
            /\ \A i, j \in 1..Len(w) :
                  (i < j /\ w[j].value >= w[i].value) => LexLess(sort_key(w[i].key), sort_key(w[j].key))

(***************************************************************************)
(* C27  The below-unity warning is one-time per decay: over any sequence   *)
(* of normalize, set_partial_width and remove calls on one Decay the       *)
(* warning is logged at most once, namely by the first normalization that  *)
(* is not forced and meets a positive BR total short of 1 by more than the *)
(* threshold.                                                              *)
(***************************************************************************)
\* the normalizations, by their number, that were not forced and met a
\* positive total short of 1 by more than the threshold
ShortNormalizations(w) ==
    {i \in 1..Len(w.normalized) :
        /\ ~w.normalized[i].force
        /\ RLess(Zero, w.normalized[i].total)
        /\ RLess(w.normalized[i].total, Rat(999999, 1000000))}

C27_WarnedOnce ==
    /\ Len(warn.logged) <= 1
    /\ ShortNormalizations(warn) = {} => warn.logged = <<>>
    /\ ShortNormalizations(warn) # {} =>
          warn.logged = <<CHOOSE i \in ShortNormalizations(warn) : \A j \in ShortNormalizations(warn) : i <= j>>

\* the second of two normalizations that met a short total
C27_Witness ==
    /\ Cardinality(ShortNormalizations(warn)) = 2
    /\ warn.logged = <<1>>

(***************************************************************************)
(* Actions that build a DecayLine from a text line or from a dumped list   *)
(***************************************************************************)
notLine == <<parserVars, dumpVars, doc, mapVars, decayVars, info, lastop, mem, reg, mg, mass, srt, warn>>

MaxFields == 4

Fields == {Field("float", Rat(1, 2)), Field("int", Rat(1, 1)), Field("int", Rat(2, 1)),
           Field("signs", Zero)}

Numbers == {Rat(1, 2), Rat(1, 1), Rat(2, 1), Rat(5, 2)}

\* DecayLine.construct(line)
LineConstruct ==
    /\ \E n \in 1..MaxFields : \E text \in [1..n -> Fields] :
          made' = [op |-> "construct", text |-> text, dump |-> <<>>, line |-> DecayLine_construct(text)]
    /\ UNCHANGED notLine

\* line._dump()
LineDump ==
    /\ made.line.k = "line"
    /\ made.op # "_dump"
    /\ made' = [made EXCEPT !.op = "_dump", !.dump = DecayLine_dump(made.line)]
    /\ UNCHANGED notLine

\* DecayLine.from_dump(dump), of a list just dumped or of any other
LineFromDump ==
    /\ \E list \in {made.dump} \cup UNION {[1..n -> Numbers] : n \in 1..MaxFields} :
          made' = [op |-> "from_dump", text |-> <<>>, dump |-> list, line |-> DecayLine_from_dump(list)]
    /\ UNCHANGED notLine

NextLine == LineConstruct \/ LineDump \/ LineFromDump

SpecLine == Init /\ [][NextLine]_vars

(***************************************************************************)
(* C28  A decay line is accepted only when its daughter count equals the   *)
(* number of daughter IDs that follow: a DecayLine built from a text or    *)
(* from a dumped list has exactly as many daughters as the count says, and *)
(* a text or list whose count and number of IDs differ yields no           *)
(* DecayLine.                                                              *)
(***************************************************************************)
\* the count a text gives and the number of fields behind it
CountGiven(text) == text[2].v.n \div text[2].v.d

IDsGiven(seq) == Len(seq) - 2

C28_FromDumpCounted ==
    (made.op = "from_dump" /\ made.line.k = "line") =>
        /\ Len(made.line.key) = IDsGiven(made.dump)
        /\ Len(made.line.key) = made.dump[2].n \div made.dump[2].d

C28_DaughterCount ==
    /\ C28_FromDumpCounted
    /\ (made.op = "construct" /\ made.line.k = "line") =>
          /\ Len(made.line.key) = IDsGiven(made.text)
          /\ Len(made.line.key) = CountGiven(made.text)

(***************************************************************************)
(* C29  A rejected InfoBlock assignment is atomic: when block[key] = value *)
(* raises TypeError, for a bare string or for a value that is no sequence, *)
(* as a number, the block holds the same lines in the same order as before *)
(* the assignment, for every key and the assigned one too.                 *)
(***************************************************************************)
C29_StringRejectedWhole ==
    (lastop.op = "setitem_str" /\ lastop.raised = "TypeError") => info = was

C29_RejectedWhole ==
    (lastop.op \in {"setitem_str", "setitem_number"} /\ lastop.raised = "TypeError") => info = was

(***************************************************************************)
(* C30  The parser conserves comments: after a parse every comment line of *)
(* the input is held exactly once by the model, in a pre-head, heading,    *)
(* per-key or tail slot, and every slot keeps the input's order; none is   *)
(* dropped, overwritten or duplicated, also when a key, a block name or a  *)
(* decay PID comes twice.                                                  *)
(***************************************************************************)
\* the comment lines of the input, in order
InputComments == SelectSeq(input, IsComment)

\* the slots of the parsed model: every entity's comment lists and the tail
CommentSlots ==
    {<<"tail", 0, 0>>}
        \cup {<<"block", j, i>> : j \in 1..Len(slha.blocks), i \in 1..MaxLines}
        \cup {<<"decay", j, i>> : j \in 1..Len(slha.decays), i \in 1..MaxLines}

SlotLines(slot) ==
    IF slot[1] = "tail" THEN slha.tail_comment
    ELSE LET e == IF slot[1] = "block" THEN slha.blocks[slot[2]].obj ELSE slha.decays[slot[2]].obj
         IN  IF slot[3] <= Len(e.comment_lines) THEN e.comment_lines[slot[3]].lines ELSE <<>>

\* how often a text is held by the model
Held(t) ==
    Cardinality({<<slot, n>> \in CommentSlots \X (1..MaxLines) :
                    n <= Len(SlotLines(slot)) /\ SlotLines(slot)[n].text = t})

\* how often a text is a comment line of the input
Given(t) == Cardinality({i \in 1..Len(input) : IsComment(input[i]) /\ input[i].text = t})

\* sub is what is left of seq when some of its members are taken out
RECURSIVE IsSubsequence(_, _)
IsSubsequence(sub, seq) ==
    IF sub = <<>> THEN TRUE
    ELSE IF seq = <<>> THEN FALSE
    ELSE IF Head(sub) = Head(seq) THEN IsSubsequence(Tail(sub), Tail(seq))
    ELSE IsSubsequence(sub, Tail(seq))

C30_NoneDuplicated ==
    done => /\ \A t \in {"# a", "# b"} : Held(t) <= Given(t)
            /\ \A slot \in CommentSlots : IsSubsequence(SlotLines(slot), InputComments)

C30_CommentsConserved ==
    done => /\ \A t \in {"# a", "# b"} : Held(t) = Given(t)
            /\ \A slot \in CommentSlots : IsSubsequence(SlotLines(slot), InputComments)

====
